---- MODULE Spec2Model ----
(***************************************************************************)
(* A model of the Chrona event clock (Clock, ClockEvent, Heap), of the     *)
(* timing helpers (schedule, cancel, scheduleLoop, cancelLoop) and of the  *)
(* recalculation engine of PhysicsObject.                                  *)
(*                                                                         *)
(* Clock.runTo is modelled step by step: the position inside the call is   *)
(* kept in pc, so that the states in which a preprocess or an event        *)
(* callback is running can be observed.  The program is single-threaded:   *)
(* top-level operations are enabled only while pc = "idle".  What a user    *)
(* callback does is fixed by the "kind" of the event or preprocess.        *)
(***************************************************************************)
EXTENDS Integers, Sequences, FiniteSets, TLC

\* ------------------------------------------------------------------ bounds
MaxTime == 2
MaxEvents == 3
\* runTo is not called once Clock.cycle has reached MaxCycle, and no more
\* than MaxPre preprocesses are added at top level between two calls.
MaxCycle == MaxTime
MaxPre == MaxTime - 1

\* The runToCycleLimit the Clock is constructed with.
runToCycleLimit == 3

Times == 0..MaxTime
EventIds == 1..MaxEvents

\* What an event callback does.
\*   plain   nothing but being observed
\*   self    clock.schedule(this event) again, at its own time
\*   cancel  sets valid = false on the event object created after it
\*   addpre  clock.addPreprocess(a plain preprocess)
\*   loop    one iteration of scheduleLoop (arg is the loop id)
\*   collision  the callback of rule arg, given the collision of a and b
\*   wake    the self-wake of addCollisions: a.addCollisions()
\*   past    clock.schedule(this event) again, one unit before its own time
\*   adv     clock.advance(), on the clock that invoked the callback
\*   runto   clock.runTo(MaxTime), on the clock that invoked the callback
EventKinds == {"plain", "self", "cancel", "addpre"}
\* What a preprocess does.
\*   plain   nothing but being observed
\*   adder   clock.addPreprocess(a plain preprocess)
\*   again   clock.addPreprocess(itself)
PreKinds == {"plain", "adder"}
\* The entries Clock.preprocesses is followed up to in one pass.
MaxList == 4

MaxLoops == 2
\* The delays of the loops started.
Delays == 1..MaxTime

\* The slot of an event id that names no live ClockEvent object.
NoEvent == [time |-> 0, kind |-> "none", arg |-> 0, delay |-> 0, valid |-> FALSE,
            a |-> 0, b |-> 0]

\* The PhysicsObjects, Geometries, Trajectories, CollisionGroups and
\* CollisionRules the program constructs.
NObj == 2
NGeo == 2
NGroup == 2
NRule == 1
\* The most contacts the exact solver reports for one candidate.
MaxHits == 1
\* The most operations on objects the program does at top level.
MaxOps == 2
Objs == 1..NObj

\* The PhysicsObjects of a program that constructs one more.
Trio == 1..(NObj + 1)
Geos == 1..NGeo
Trajs == 1..NObj
Groups == 1..NGroup
Rules == 1..NRule
\* The CollisionRules of a program that constructs one more.
RulePair == 1..(NRule + 1)
\* The unordered pairs of distinct objects.
Pairs == {{a, b} : a, b \in Objs} \ {{a} : a \in Objs}

\* Infinity, as in nextProbableRecalculation = Infinity.
Infinity == 1000
NegInfinity == 0 - Infinity
Min(x, y) == IF x <= y THEN x ELSE y
Max(x, y) == IF x >= y THEN x ELSE y

VARIABLES
    time,           \* Clock.time
    cycle,          \* Clock.cycle
    events,         \* Clock.events.values: the heap array, of event ids
    preprocesses,   \* Clock.preprocesses
    ev,             \* the ClockEvent objects, by id: time, callback kind, valid
    pc,             \* position inside runTo: idle, loop, pre, callback;
                    \* inside advance: apre, acallback
    target,         \* runTo's argument
    i,              \* runTo's cycle counter
    pidx,           \* position of the for-of loop over preprocesses
    cur,            \* the event popped by the current cycle
    result,         \* how the last runTo ended: none, returned, invalid-time, cycle-limit
    log,            \* the event callbacks invoked by the current runTo call
    prelog,         \* the last preprocess invoked
    start,          \* the events in the heap when the current runTo was called
    cycle0,         \* Clock.cycle when the current runTo was called
    nextEv,         \* the number of ClockEvent objects created so far, plus one
    loops,          \* timing helpers: the Set loops
    id,             \* timing helpers: the counter id
    handles,        \* what scheduleLoop returned, for each loop started
    cancelled,      \* the loops whose handle was passed to cancelLoop
    obj,            \* the PhysicsObjects, by id: their fields
    gdeps,          \* Geometry.dependants, by geometry, in insertion order
    tdeps,          \* Trajectory.dependants, by trajectory, in insertion order
    members,        \* CollisionGroup.members, by group, in insertion order
    rules,          \* the CollisionRules: groupA, groupB, recalculating
    collisionRulesA, \* CollisionGroup.collisionRulesA, by group, in insertion order
    collisionRulesB, \* CollisionGroup.collisionRulesB, by group, in insertion order
    trj,            \* a Trajectory with no dependant: base, motion, time
    tlast,          \* the last call on that Trajectory, and what it was given
    trjAB,          \* the Trajectories of the two objects of a Collision
    rlast,          \* the last Collision.resolve: the collision, the arguments
    gb,             \* a GeometryBuilder: its fields
    glast,          \* the last call on that builder, what it was given and returned
    vlast,          \* the last vertexEdge call: what it was given and returned
    clast,          \* the last generateCollisionCandidates call on two
                    \* objects with boxes: what it was given and returned
    hp,             \* a Heap of its own: values, the pushes and pops so far
                    \* and the last call with what it returned
    dirty,          \* the enabled objects mutated since their last recalculation
    ops             \* the number of top-level operations on objects so far

clockVars == <<time, cycle, events, preprocesses>>
loopVars == <<loops, id, handles, cancelled>>
ruleVars == <<rules, collisionRulesA, collisionRulesB>>
trajVars == <<trj, tlast>>
buildVars == <<gb, glast>>
solveVars == <<vlast, clast, hp>>
valueVars == <<trjAB, rlast, buildVars, solveVars>>
physVars == <<obj, gdeps, tdeps, members, ruleVars, trajVars, valueVars, dirty, ops>>
physRest == <<gdeps, tdeps, members, ruleVars, trajVars, valueVars, dirty>>
vars == <<time, cycle, events, preprocesses, ev, pc, target, i, pidx, cur,
          result, log, prelog, start, cycle0, nextEv, loops, id, handles,
          cancelled, obj, gdeps, tdeps, members, rules, collisionRulesA,
          collisionRulesB, trj, tlast, trjAB, rlast, gb, glast, vlast, clast,
          hp, dirty, ops>>

\* ------------------------------------------------------------- Transform
\* A Transform is its array: ax, ay, bx, by, px, py.
Identity == <<1, 0, 0, 1, 0, 0>>
Zero == <<0, 0, 0, 0, 0, 0>>
NoCall == [op |-> "none", arg |-> Zero, motion |-> Zero, dt |-> 0, at |-> 0,
           before |-> Zero, motionBefore |-> Zero]

\* The transforms, rates of change, vectors and durations the program passes
\* to a Trajectory: a translation, a quarter turn with a translation, a
\* drift, a rotation rate.
Xforms == {Identity, <<1, 0, 0, 1, 2, 0>>, <<0, 1, -1, 0, 0, 2>>}
Motions == {Zero, <<0, 0, 0, 0, 1, 0>>, <<0, 1, -1, 0, 0, 0>>}
Vecs == {<<1, 0>>, <<0, 2>>}
Durations == 1..MaxTime

\* Transform.addScaled, Transform.sub: component by component.
AddScaled(a, b, k) == [n \in 1..6 |-> a[n] + k * b[n]]
Sub(a, b) == [n \in 1..6 |-> a[n] - b[n]]

\* Transform.scale(1 / dt) about the origin, for a transform every component
\* of which dt divides; the rounding of the division is not modelled.
Divisible(a, dt) == \A n \in 1..6 : a[n] % dt = 0
ScaleInverse(a, dt) == [n \in 1..6 |-> a[n] \div dt]

\* transform.p.set(v) and transform.p.add(v): p is a view of arr[4], arr[5].
SetP(a, v) == [a EXCEPT ![5] = v[1], ![6] = v[2]]
AddP(a, v) == [a EXCEPT ![5] = @ + v[1], ![6] = @ + v[2]]

\* V2.applyTransform.
applyTransform(v, a) == <<a[1] * v[1] + a[3] * v[2] + a[5],
                          a[2] * v[1] + a[4] * v[2] + a[6]>>

\* -------------------------------------------------------------------- V2
\* V2.add, sub, scale, dot, cross, perp, on pairs.
VAdd(u, v) == <<u[1] + v[1], u[2] + v[2]>>
VSub(u, v) == <<u[1] - v[1], u[2] - v[2]>>
VScale(v, k) == <<k * v[1], k * v[2]>>
dot(u, v) == u[1] * v[1] + u[2] * v[2]
cross(u, v) == u[1] * v[2] - u[2] * v[1]
perp(v) == <<0 - v[2], v[1]>>

\* Math.sqrt of a perfect square.
Sqrt(n) == CHOOSE k \in 0..n : k * k = n

\* V2.normalize, for a vector whose length divides its components.
normalize(v) ==
    LET len == Sqrt(dot(v, v))
    IN  IF len # 0 THEN <<v[1] \div len, v[2] \div len>> ELSE v

\* V2.project(axis), for an axis whose squared length divides the product.
project(v, axis) ==
    LET t == dot(v, axis) \div dot(axis, axis)
    IN  <<t * axis[1], t * axis[2]>>

\* V2.scale(num / den), for a vector whose components times num den divides.
ScaleRatio(v, num, den) == <<(v[1] * num) \div den, (v[2] * num) \div den>>
RatioExact(v, num, den) == (v[1] * num) % den = 0 /\ (v[2] * num) % den = 0

\* ------------------------------------------------------- GeometryBuilder
\* The vertices the program builds its geometries from.
P1 == <<0, 0>>
P2 == <<2, 0>>
P3 == <<2, 2>>
P4 == <<0, 2>>
Points == {P1, P2, P3, P4}

\* The arguments of a call of to(...) and of polygon(...).
Paths == {<<p>> : p \in Points} \cup {<<P1, P2>>, <<P3, P1>>}
Polygons == [1..3 -> {P1, P2, P3}] \cup {<<P1, P2, P3, P4>>}

\* The number of calls the program makes on its builder.
MaxCalls == 3

\* new GeometryBuilder().
NewBuilder == [pos0 |-> <<0, 0>>, pos1 |-> <<0, 0>>, prevPrev |-> <<0, 0>>,
               prev |-> <<0, 0>>, n |-> 0, vertexArray |-> <<>>, edgeArray |-> <<>>,
               minX |-> Infinity, maxX |-> NegInfinity,
               minY |-> Infinity, maxY |-> NegInfinity]

NoBuild == [op |-> "none", arg |-> <<>>, before |-> NewBuilder, ret |-> "none",
            calls |-> 0]

Edge(p0, p1) == [p0 |-> p0, p1 |-> p1]
Vertex(p, t0, t1) == [p |-> p, t0 |-> t0, t1 |-> t1]

\* GeometryBuilder.to: the body of the loop, for one vertex p.
toOne(g, p) ==
    LET boxed == [g EXCEPT !.minX = Min(@, p[1]), !.maxX = Max(@, p[1]),
                           !.minY = Min(@, p[2]), !.maxY = Max(@, p[2])]
        edged == [boxed EXCEPT !.edgeArray = Append(@, Edge(g.prev, p))]
        linked ==
            IF 1 <= g.n
            THEN [(IF 2 <= g.n
                   THEN [edged EXCEPT !.vertexArray =
                             Append(@, Vertex(g.prev, VSub(g.prev, g.prevPrev),
                                              VSub(p, g.prev)))]
                   ELSE [edged EXCEPT !.pos1 = p])
                  EXCEPT !.prevPrev = g.prev]
            ELSE [boxed EXCEPT !.pos0 = p]
    IN  [linked EXCEPT !.prev = p, !.n = g.n + 1]

\* GeometryBuilder.to(...vertices).
RECURSIVE to(_, _)
to(g, vertices) ==
    IF vertices = <<>> THEN g
    ELSE to(toOne(g, Head(vertices)), Tail(vertices))

\* GeometryBuilder.break.
break(g) == [g EXCEPT !.n = 0]

\* GeometryBuilder.close: the test of its first line.
TooShort(n) == n < 2

\* GeometryBuilder.close.
close(g) ==
    IF TooShort(g.n) THEN g
    ELSE break([g EXCEPT
             !.edgeArray = Append(@, Edge(g.prev, g.pos0)),
             !.vertexArray =
                 Append(Append(@, Vertex(g.prev, VSub(g.prev, g.prevPrev),
                                         VSub(g.pos0, g.prev))),
                        Vertex(g.pos0, VSub(g.pos0, g.prev), VSub(g.pos1, g.pos0)))])

\* What close hands back: the builder, or nothing from its first line.
closeReturn(g) == IF TooShort(g.n) THEN "undefined" ELSE "this"

\* GeometryBuilder.polygon; before it, one that goes on with the path the
\* builder was in.
polygon_NoBreak(g, vertices) == close(to(g, vertices))
polygon(g, vertices) == close(to(break(g), vertices))

\* ------------------------------------------------------------ Trajectory
\* An updateToPresent that moves the anchor and leaves the base behind.
updateToPresent_AnchorOnly(tr, now) == [tr EXCEPT !.time = now]

\* Trajectory.updateToPresent.
updateToPresent(tr, now) ==
    [base |-> AddScaled(tr.base, tr.motion, now - tr.time),
     motion |-> tr.motion,
     time |-> now]

\* Trajectory.getTransform, getMotion, posOf.
getTransform(tr, now) == AddScaled(tr.base, tr.motion, now - tr.time)
getMotion(tr) == tr.motion
posOf(tr, v) == applyTransform(v, tr.base)

\* Trajectory.setTransform(base, motion); hasMotion is false when the second
\* argument is left out.
setTransform(tr, base, motion, hasMotion) ==
    [tr EXCEPT !.base = base, !.motion = IF hasMotion THEN motion ELSE @]

\* Trajectory.setMotion, stop, translate, setPos, impulse, setVel: modify
\* with the callback of each.
setMotion(tr, motion, now) == [updateToPresent(tr, now) EXCEPT !.motion = motion]
stop(tr, now) == [updateToPresent(tr, now) EXCEPT !.motion = Zero]
translate(tr, v, now) == [updateToPresent(tr, now) EXCEPT !.base = AddP(@, v)]
setPos(tr, v, now) == [updateToPresent(tr, now) EXCEPT !.base = SetP(@, v)]
impulse(tr, v, now) == [updateToPresent(tr, now) EXCEPT !.motion = AddP(@, v)]
setVel(tr, v, now) == [updateToPresent(tr, now) EXCEPT !.motion = SetP(@, v)]

\* ------------------------------------------------------------- Collision
\* The tangents, the contact points in geometry space, the weights, the
\* restitution coefficients and the additional velocities of the collisions
\* resolved; the tangents are along an axis, so that the unit normal has
\* whole components.
Tangents == {<<1, 0>>, <<0, 2>>, <<0 - 1, 0>>, <<0, 0 - 1>>}
MaxWeight == 2
Weights == 0..MaxWeight
Restitutions == {0, 1}
AdditionalVels == {0, 1}
NoResolve == [op |-> "none", tangent |-> <<0, 0>>, relVel |-> <<0, 0>>,
              pa |-> <<0, 0>>, pb |-> <<0, 0>>,
              additionalVel |-> 0, restitutionCoefficient |-> 0,
              weightA |-> 0, weightB |-> 0, motionA |-> Zero, motionB |-> Zero]

\* verifyCollision: relVel, the velocity of the contact point of b minus that
\* of the contact point of a, each the motion applied to the point.
contactRelVel(trs, pa, pb) ==
    VSub(applyTransform(pb, trs[2].motion), applyTransform(pa, trs[1].motion))

\* Collision.resolve: perpDir and perpVel; before perpVel, one that takes
\* the whole relative velocity for its normal part.
perpDir(c) == normalize(perp(c.tangent))
perpVel_Whole(c, additionalVel) ==
    VAdd(c.relVel, VScale(perpDir(c), additionalVel))
perpVel(c, additionalVel) ==
    VAdd(project(c.relVel, perpDir(c)), VScale(perpDir(c), additionalVel))

\* A resolve that reads the two weights the other way round.
resolve_Swapped(trs, c, additionalVel, restitutionCoefficient, weightA, weightB, now) ==
    LET v == perpVel(c, additionalVel)
        k == 1 + restitutionCoefficient
        s1 == IF weightA # 0
              THEN [trs EXCEPT ![1] = impulse(@, ScaleRatio(v, k * weightA,
                                                            weightA + weightB), now)]
              ELSE trs
    IN  IF weightB # 0
        THEN [s1 EXCEPT ![2] = impulse(@, ScaleRatio(v, (0 - k) * weightB,
                                                     weightA + weightB), now)]
        ELSE s1

\* Collision.resolve(additionalVel, restitutionCoefficient, weightA, weightB)
\* on the trajectories trs of objA and objB, two different Trajectory objects.
resolve(trs, c, additionalVel, restitutionCoefficient, weightA, weightB, now) ==
    LET v == perpVel(c, additionalVel)
        k == 1 + restitutionCoefficient
        s1 == IF weightB # 0
              THEN [trs EXCEPT ![1] = impulse(@, ScaleRatio(v, k * weightB,
                                                            weightA + weightB), now)]
              ELSE trs
    IN  IF weightA # 0
        THEN [s1 EXCEPT ![2] = impulse(@, ScaleRatio(v, (0 - k) * weightA,
                                                     weightA + weightB), now)]
        ELSE s1

\* A transformTo that measures the way to go from the base.
transformTo_FromBase(tr, transform, dt, now) ==
    setMotion(tr, ScaleInverse(Sub(transform, tr.base), dt), now)

\* Trajectory.transformTo(transform, time): the argument of setMotion is
\* computed before modify runs.
transformTo(tr, transform, dt, now) ==
    setMotion(tr, ScaleInverse(Sub(transform, getTransform(tr, now)), dt), now)

\* ------------------------------------------------------------ vertexEdge
\* Transform.applyVec and Transform.applyAffineVec, on pairs.
applyVec(a, v) == <<a[1] * v[1] + a[3] * v[2] + a[5],
                    a[2] * v[1] + a[4] * v[2] + a[6]>>
applyAffineVec(a, v) == <<a[1] * v[1] + a[3] * v[2], a[2] * v[1] + a[4] * v[2]>>

\* V2.mag2, and V2.mag of a vector whose squared length is a perfect square.
mag2(v) == dot(v, v)
IsSquare(n) == \E k \in 0..n : k * k = n
mag(v) == Sqrt(mag2(v))

\* n / d for a quotient that is a whole number, and whether it is one.
Quotient(n, d) == IF d < 0 THEN (0 - n) \div (0 - d) ELSE n \div d
Whole(n, d) == IF d < 0 THEN n % (0 - d) = 0 ELSE n % d = 0

\* V2.lerp(b, t) with t = num / den, for a quotient that is exact.
lerp(u, b, num, den) ==
    <<(u[1] * (den - num) + b[1] * num) \div den,
      (u[2] * (den - num) + b[2] * num) \div den>>
LerpExact(u, b, num, den) ==
    /\ (u[1] * (den - num) + b[1] * num) % den = 0
    /\ (u[2] * (den - num) + b[2] * num) % den = 0

\* vertexEdge, the constants of one vertex and one edge: the velocities and
\* the positions at baseTime of the ends of the edge, of the vertex and of
\* its tangents, and the coefficients of (ev t + ep) x (vv t + vp).
Setup(eTr, vTr, edge, vertex) ==
    LET edgeTime == vTr.time - eTr.time
        e0av == applyVec(eTr.motion, edge.p0)
        e0ap == VAdd(applyVec(eTr.base, edge.p0), VScale(e0av, edgeTime))
        e1av == applyVec(eTr.motion, edge.p1)
        e1ap == VAdd(applyVec(eTr.base, edge.p1), VScale(e1av, edgeTime))
        vap == applyVec(vTr.base, vertex.p)
        vav == applyVec(vTr.motion, vertex.p)
        edgeV == VSub(e1av, e0av)
        ep == VSub(e1ap, e0ap)
        vv == VAdd(VScale(e0av, -1), vav)
        vp == VAdd(VScale(e0ap, -1), vap)
    IN  [vap |-> vap, vav |-> vav,
         v0p |-> applyAffineVec(vTr.base, vertex.t0),
         v0v |-> applyAffineVec(vTr.motion, vertex.t0),
         v1p |-> applyAffineVec(vTr.base, vertex.t1),
         v1v |-> applyAffineVec(vTr.motion, vertex.t1),
         ev |-> edgeV, ep |-> ep, vv |-> vv, vp |-> vp,
         a |-> cross(edgeV, vv),
         b |-> cross(ep, vv) + cross(edgeV, vp),
         c |-> cross(ep, vp)]

\* The vectors verifyCollision is given by collisionAtTime(t).
AtTime(k, t) ==
    [ep |-> VAdd(k.ep, VScale(k.ev, t)),
     vp |-> VAdd(k.vp, VScale(k.vv, t)),
     v0p |-> VAdd(k.v0p, VScale(k.v0v, t)),
     v1p |-> VAdd(k.v1p, VScale(k.v1v, t)),
     pos |-> VAdd(k.vap, VScale(k.vav, t))]

\* verifyCollision: s < 0 || 1 < s, with s = ep.dot(vp) / ep.mag2.
OffEdge(ep, vp) == dot(ep, vp) < 0 \/ mag2(ep) < dot(ep, vp)

\* verifyCollision: convex, correctDirection, correctWinding.
convex(v0p, v1p) == 0 < cross(v0p, v1p)
correctDirection(v0p, v1p, ep, toleranceProfile) ==
    cross(v0p, ep) * cross(v1p, ep)
        <= mag2(ep) * mag(v0p) * mag(v1p) * toleranceProfile.directionalTolerance
correctWinding(v0p, v1p, ep) ==
    dot(VAdd(VScale(v0p, mag(v1p)), VScale(v1p, mag(v0p))), ep) <= 0

\* verifyCollision: edgeVel and relVel at the contact parameter.
edgeVelAt(eTr, edge, ep, vp) ==
    applyVec(eTr.motion, lerp(edge.p0, edge.p1, dot(ep, vp), mag2(ep)))
relVelAt(eTr, edge, k, ep, vp) == VSub(k.vav, edgeVelAt(eTr, edge, ep, vp))

\* A test that lets every relative velocity through.
Receding_Never(ep, relVel) == FALSE

\* verifyCollision: if(ep.cross(relVel) <= 0) return null.
Receding(ep, relVel) == cross(ep, relVel) <= 0

\* verifyCollision, as called by collisionAtTime(t): no or one Collision.
\* from tells which statement of vertexEdge called collisionAtTime.
verifyCollision(eTr, vTr, edge, vertex, invert, toleranceProfile, k, t, from) ==
    LET x == AtTime(k, t)
        invertScl == IF invert THEN -1 ELSE 1
        edgeVel == edgeVelAt(eTr, edge, x.ep, x.vp)
        relVel == relVelAt(eTr, edge, k, x.ep, x.vp)
    IN  IF OffEdge(x.ep, x.vp) THEN <<>>
        ELSE IF ~convex(x.v0p, x.v1p) THEN <<>>
        ELSE IF ~correctDirection(x.v0p, x.v1p, x.ep, toleranceProfile) THEN <<>>
        ELSE IF ~correctWinding(x.v0p, x.v1p, x.ep) THEN <<>>
        ELSE IF Receding(x.ep, relVel) THEN <<>>
        ELSE <<[pos |-> x.pos,
                tangent |-> VScale(x.ep, invertScl),
                vel |-> IF invert THEN k.vav ELSE edgeVel,
                relVel |-> VScale(relVel, invertScl),
                time |-> vTr.time + t,
                invert |-> invert,
                from |-> from]>>

\* A close-collision test that never holds.
closeCollision_Never(epNow, vpNow, toleranceProfile) == FALSE

\* vertexEdge: Math.abs(epNow.cross(vpNow)) <= epNow.mag * closeCollisionThresh,
\* both sides being squared.
closeCollision(epNow, vpNow, toleranceProfile) ==
    cross(epNow, vpNow) * cross(epNow, vpNow)
        <= mag2(epNow) * toleranceProfile.closeCollisionThresh
                       * toleranceProfile.closeCollisionThresh

\* The times collisionAtTime is called with for one vertex and one edge, in
\* the order of the calls: now (the close-collision shortcut), then the root
\* of the linear or of the quadratic, the one at which the cross product
\* goes from negative to positive.  A quotient 0 / 0 is NaN, which
\* verifyCollision rejects.
RootTimes(k) ==
    IF k.a = 0
    THEN IF k.b <= 0 THEN <<>>
         ELSE <<[t |-> Quotient(0 - k.c, k.b), from |-> "linear"]>>
    ELSE LET disc == k.b * k.b - 4 * k.a * k.c
         IN  IF disc < 0 THEN <<>>
             ELSE IF 0 - k.b - Sqrt(disc) = 0 THEN <<>>
             ELSE <<[t |-> Quotient(2 * k.c, 0 - k.b - Sqrt(disc)),
                     from |-> "quadratic"]>>
CandidateTimes(k, nowRel, toleranceProfile) ==
    LET now == AtTime(k, nowRel)
    IN  (IF closeCollision(now.ep, now.vp, toleranceProfile)
         THEN <<[t |-> nowRel, from |-> "close"]>> ELSE <<>>)
        \o RootTimes(k)

\* The inputs whose quotients and square roots are whole numbers: the
\* rounding of the floating-point operations is not modelled.  An edge of
\* zero length at a candidate time is left out.
Representable(eTr, vTr, edge, vertex, now) ==
    LET k == Setup(eTr, vTr, edge, vertex)
        disc == k.b * k.b - 4 * k.a * k.c
        exact == /\ k.a = 0 /\ k.b > 0 => Whole(k.c, k.b)
                 /\ k.a # 0 /\ disc >= 0 =>
                        /\ IsSquare(disc)
                        /\ 0 - k.b - Sqrt(disc) # 0 =>
                               Whole(2 * k.c, 0 - k.b - Sqrt(disc))
    IN  /\ exact
        /\ \A n \in 1..Len(RootTimes(k)) \cup {0} :
               LET t == IF n = 0 THEN now - vTr.time ELSE RootTimes(k)[n].t
                   x == AtTime(k, t)
               IN  /\ mag2(x.ep) # 0
                   /\ IsSquare(mag2(x.v0p))
                   /\ IsSquare(mag2(x.v1p))
                   /\ LerpExact(edge.p0, edge.p1, dot(x.ep, x.vp), mag2(x.ep))

\* vertexEdge(edgeObj, vertexObj, invert, now, toleranceProfile) for
\* geometries of one vertex and one edge: the collisions, in the order they
\* are pushed.
RECURSIVE collisionsAt(_, _, _, _, _, _, _, _)
collisionsAt(eTr, vTr, edge, vertex, invert, toleranceProfile, k, ts) ==
    IF ts = <<>> THEN <<>>
    ELSE verifyCollision(eTr, vTr, edge, vertex, invert, toleranceProfile, k,
                         Head(ts).t, Head(ts).from)
         \o collisionsAt(eTr, vTr, edge, vertex, invert, toleranceProfile, k,
                         Tail(ts))
vertexEdge(eTr, vTr, edge, vertex, invert, now, toleranceProfile) ==
    LET k == Setup(eTr, vTr, edge, vertex)
    IN  collisionsAt(eTr, vTr, edge, vertex, invert, toleranceProfile, k,
                     CandidateTimes(k, now - vTr.time, toleranceProfile))

\* What the program gives vertexEdge: an edge along the x axis, in either
\* direction; a vertex with tangents that span a quarter turn; the edge at
\* rest, drifting or turning about its first end; the vertex at rest or
\* drifting.
SolveEdges == {[p0 |-> <<0, 0>>, p1 |-> <<2, 0>>], [p0 |-> <<2, 0>>, p1 |-> <<0, 0>>]}
SolveVertices ==
    {[p |-> <<0, 0>>, t0 |-> <<0, 1>>, t1 |-> <<-1, 0>>],
     [p |-> <<0, 0>>, t0 |-> <<1, 0>>, t1 |-> <<0, 1>>],
     [p |-> <<0, 0>>, t0 |-> <<-1, 0>>, t1 |-> <<0, 1>>]}
EdgeMotions == {Zero, <<0, 0, 0, 0, 0, 1>>, <<0, 1, -1, 0, 0, 0>>}
VertexBases == {<<1, 0, 0, 1, 1, 0>>, <<1, 0, 0, 1, 1, -1>>, <<1, 0, 0, 1, 1, 1>>,
                <<1, 0, 0, 1, 3, 0>>}
VertexMotions == {Zero, <<0, 0, 0, 0, 0, 1>>, <<0, 0, 0, 0, 0, -1>>,
                  <<0, 0, 0, 0, -1, 0>>}
ToleranceProfiles ==
    {[closeCollisionThresh |-> 0, directionalTolerance |-> 0],
     [closeCollisionThresh |-> 1, directionalTolerance |-> 0],
     [closeCollisionThresh |-> 0, directionalTolerance |-> 1]}
NoSolve == [op |-> "none",
            eTr |-> [base |-> Identity, motion |-> Zero, time |-> 0],
            vTr |-> [base |-> Identity, motion |-> Zero, time |-> 0],
            edge |-> [p0 |-> <<0, 0>>, p1 |-> <<0, 0>>],
            vertex |-> [p |-> <<0, 0>>, t0 |-> <<0, 0>>, t1 |-> <<0, 0>>],
            invert |-> FALSE, now |-> 0,
            toleranceProfile |-> [closeCollisionThresh |-> 0,
                                  directionalTolerance |-> 0],
            collisions |-> <<>>]

\* ------------------------------------------------- swept bounding boxes
\* JavaScript numbers: whole numbers below Infinity, Infinity, -Infinity and
\* NaN.  A quotient of two finite numbers is taken only when it is whole.
NaN == 2 * Infinity
NumNeg(x) == IF x = NaN THEN NaN ELSE 0 - x
Sign(x) == IF x > 0 THEN 1 ELSE IF x < 0 THEN -1 ELSE 0
IsInfinite(x) == x = Infinity \/ x = NegInfinity
NumMul(x, y) ==
    IF x = NaN \/ y = NaN THEN NaN
    ELSE IF IsInfinite(x) \/ IsInfinite(y)
    THEN IF x = 0 \/ y = 0 THEN NaN ELSE Sign(x) * Sign(y) * Infinity
    ELSE x * y
NumAdd(x, y) ==
    IF x = NaN \/ y = NaN THEN NaN
    ELSE IF IsInfinite(x) /\ IsInfinite(y) THEN IF x = y THEN x ELSE NaN
    ELSE IF IsInfinite(x) THEN x
    ELSE IF IsInfinite(y) THEN y
    ELSE x + y
NumSub(x, y) == NumAdd(x, NumNeg(y))
NumDiv(x, y) ==
    IF x = NaN \/ y = NaN THEN NaN
    ELSE IF IsInfinite(x) /\ IsInfinite(y) THEN NaN
    ELSE IF IsInfinite(y) THEN 0
    ELSE IF IsInfinite(x) THEN Sign(x) * Sign(y) * Infinity
    ELSE Quotient(x, y)
NumLess(x, y) == x # NaN /\ y # NaN /\ x < y
MathMin(x, y) == IF x = NaN \/ y = NaN THEN NaN ELSE Min(x, y)
MathMax(x, y) == IF x = NaN \/ y = NaN THEN NaN ELSE Max(x, y)
MathMin4(s) == MathMin(MathMin(s[1], s[2]), MathMin(s[3], s[4]))
MathMax4(s) == MathMax(MathMax(s[1], s[2]), MathMax(s[3], s[4]))

\* generateBox: m.a.x * x + m.b.x * y + m.p.x for the four corners of the
\* bounding box of the geometry, and the same with y, for a Transform m.
CornersX(m, g) ==
    [n \in 1..4 |->
        NumAdd(NumAdd(NumMul(m[1], IF n \in {1, 3} THEN g.minX ELSE g.maxX),
                      NumMul(m[3], IF n \in {1, 2} THEN g.minY ELSE g.maxY)),
               m[5])]
CornersY(m, g) ==
    [n \in 1..4 |->
        NumAdd(NumAdd(NumMul(m[2], IF n \in {1, 3} THEN g.minX ELSE g.maxX),
                      NumMul(m[4], IF n \in {1, 2} THEN g.minY ELSE g.maxY)),
               m[6])]

\* generateBox(obj): the sides of the box at the time now and their
\* velocities.
generateBox(o, now) ==
    LET m == o.trajectory.motion
        p == AddScaled(o.trajectory.base, m, now - o.trajectory.time)
    IN  [l |-> MathMin4(CornersX(p, o.geometry)), lv |-> MathMin4(CornersX(m, o.geometry)),
         r |-> MathMax4(CornersX(p, o.geometry)), rv |-> MathMax4(CornersX(m, o.geometry)),
         b |-> MathMin4(CornersY(p, o.geometry)), bv |-> MathMin4(CornersY(m, o.geometry)),
         t |-> MathMax4(CornersY(p, o.geometry)), tv |-> MathMax4(CornersY(m, o.geometry))]

\* A constrain that takes the bound whatever the sign of m is.
constrain_LowerOnly(range, m, b) ==
    IF m = 0 THEN range
    ELSE [range EXCEPT !.min = MathMax(range.min, NumDiv(NumNeg(b), m))]

\* constrain(m, b): the range of t is cut to 0 <= m t + b.
constrain(range, m, b) ==
    IF m = 0
    THEN IF NumLess(b, 0) THEN [min |-> Infinity, max |-> NegInfinity] ELSE range
    ELSE LET x == NumDiv(NumNeg(b), m)
         IN  IF NumLess(0, m)
             THEN [range EXCEPT !.min = MathMax(range.min, x)]
             ELSE [range EXCEPT !.max = MathMin(range.max, x)]

\* The four calls of constrain: the slope and the offset of each.
Constraints(A, B) ==
    <<[m |-> NumSub(B.rv, A.lv), b |-> NumSub(B.r, A.l)],
      [m |-> NumSub(A.rv, B.lv), b |-> NumSub(A.r, B.l)],
      [m |-> NumSub(B.tv, A.bv), b |-> NumSub(B.t, A.b)],
      [m |-> NumSub(A.tv, B.bv), b |-> NumSub(A.t, B.b)]>>
RECURSIVE constrainAll(_, _)
constrainAll(range, cs) ==
    IF cs = <<>> THEN range
    ELSE constrainAll(constrain(range, Head(cs).m, Head(cs).b), Tail(cs))

\* generateCollisionCandidates(a, b, now, collisionRule) on two objects with
\* their geometries and trajectories: no candidate for null, or the one
\* candidate with its earliestTime.
sweptCandidate(a, b, same, now) ==
    LET range == constrainAll([min |-> 0, max |-> Infinity],
                              Constraints(generateBox(a, now), generateBox(b, now)))
    IN  IF same THEN <<>>
        ELSE IF NumLess(range.max, range.min) THEN <<>>
        ELSE <<[earliestTime |-> NumAdd(now, range.min)]>>

\* The quotients constrain takes are whole.
WholeBounds(a, b, now) ==
    \A n \in 1..4 :
        LET c == Constraints(generateBox(a, now), generateBox(b, now))[n]
        IN  c.m \notin {0, NaN, Infinity, NegInfinity}
               /\ c.b \notin {NaN, Infinity, NegInfinity}
            => Whole(c.b, c.m)

\* What the program gives: a geometry of two units a side, the geometry
\* new Geometry() makes, and the one new GeometryBuilder().finish() makes;
\* trajectories that place the object and let it drift.
BoxGeometries ==
    {[minX |-> 0, maxX |-> 2, minY |-> 0, maxY |-> 2],
     [minX |-> 0, maxX |-> 0, minY |-> 0, maxY |-> 0],
     [minX |-> Infinity, maxX |-> NegInfinity, minY |-> Infinity, maxY |-> NegInfinity]}
BoxBases == {Identity, <<1, 0, 0, 1, 4, 0>>, <<1, 0, 0, 1, 0, 4>>, <<1, 0, 0, 1, 2, 2>>}
BoxMotions == {Zero, <<0, 0, 0, 0, 1, 0>>, <<0, 0, 0, 0, -1, 0>>, <<0, 0, 0, 0, 0, -2>>}
BoxObjects ==
    [geometry : BoxGeometries,
     trajectory : [base : BoxBases, motion : BoxMotions, time : {0}]]
NoGenerate ==
    [op |-> "none",
     a |-> [geometry |-> [minX |-> 0, maxX |-> 0, minY |-> 0, maxY |-> 0],
            trajectory |-> [base |-> Identity, motion |-> Zero, time |-> 0]],
     b |-> [geometry |-> [minX |-> 0, maxX |-> 0, minY |-> 0, maxY |-> 0],
            trajectory |-> [base |-> Identity, motion |-> Zero, time |-> 0]],
     same |-> FALSE, now |-> 0, result |-> <<>>]

\* ------------------------------------------------------------------ Heap
\* Heap.#parent, Heap.#childA, Heap.#childB on 0-based indices.
parent(index) == (index - 1) \div 2
childA(index) == 2 * index + 1
childB(index) == 2 * index + 2

\* A comparator with its operands exchanged.
compareFn_Reversed(key, a, b) == key[b] - key[a]

\* The comparator of Clock.events: (a, b) => a.time - b.time.
\* key maps an element of the heap to the number it is ordered by.
compareFn(key, a, b) == key[a] - key[b]

\* The while loop of Heap.push: values has the new slot at index (0-based).
RECURSIVE SiftUp(_, _, _, _)
SiftUp(key, values, index, value) ==
    IF index > 0
    THEN LET parentIndex == parent(index)
             par == values[parentIndex + 1]
         IN  IF compareFn(key, par, value) <= 0
             THEN [values EXCEPT ![index + 1] = value]
             ELSE SiftUp(key, [values EXCEPT ![index + 1] = par], parentIndex, value)
    ELSE [values EXCEPT ![index + 1] = value]

\* Heap.push for one value.
HeapPush(key, values, value) ==
    SiftUp(key, Append(values, value), Len(values), value)

\* Heap.peek: values[0], or undefined (0) when the heap is empty.
HeapPeek_Last(values) == IF Len(values) = 0 THEN 0 ELSE values[Len(values)]
HeapPeek(values) == IF Len(values) = 0 THEN 0 ELSE values[1]

\* The while loop of Heap.pop: last is being sunk from index.
RECURSIVE SiftDown(_, _, _, _)
SiftDown(key, values, index, last) ==
    IF childA(index) < Len(values)
    THEN LET childAIndex == childA(index)
             childBIndex == childB(index)
             lesserIndex ==
                 IF /\ childBIndex < Len(values)
                    /\ compareFn(key, values[childAIndex + 1], values[childBIndex + 1]) >= 0
                 THEN childBIndex
                 ELSE childAIndex
             lesserChild == values[lesserIndex + 1]
         IN  IF compareFn(key, last, lesserChild) <= 0
             THEN [values EXCEPT ![index + 1] = last]
             ELSE SiftDown(key, [values EXCEPT ![index + 1] = lesserChild], lesserIndex, last)
    ELSE [values EXCEPT ![index + 1] = last]

\* Heap.pop: the array left behind (the value returned is HeapPeek).
HeapPop(key, values) ==
    IF Len(values) = 0 THEN values
    ELSE LET last == values[Len(values)]
             rest == SubSeq(values, 1, Len(values) - 1)
         IN  IF Len(rest) = 0 THEN rest
             ELSE SiftDown(key, rest, 0, last)

Range(s) == {s[k] : k \in 1..Len(s)}
\* Items given to a Heap of its own, and the number each is ordered by: two
\* of them are ordered by the same number.
HeapItems == 4
MaxPushes == 5
itemKey == [x \in 1..HeapItems |-> IF x <= 2 THEN 1 ELSE x - 1]

\* new Heap((a, b) => a.key - b.key): no values, and no call yet.
NewHeap ==
    [values |-> <<>>, pushed |-> 0, popped |-> 0,
     op |-> "none", before |-> <<>>, returned |-> 0]

\* What Heap.pop returns: undefined (0) for no values, the last value when
\* it was the only one, the root otherwise.
popReturn_Last(values) == IF Len(values) = 0 THEN 0 ELSE values[Len(values)]
popReturn(values) ==
    IF Len(values) = 0 THEN 0
    ELSE IF Len(values) = 1 THEN values[Len(values)]
    ELSE values[1]

InHeap(e) == e \in Range(events)

\* The key of Clock.events: the time of each event object.
evKey == [e \in EventIds |-> ev[e].time]

\* ------------------------------------------------------------------ Clock
\* Clock.schedule, the test of one event: events in the past are skipped.
InPast_Inclusive(t, now) == t <= now
InPast(t, now) == t < now

\* Clock.schedule for one event object e.
ClockSchedule(heap, e, t, now) ==
    IF InPast(t, now) THEN heap
    ELSE HeapPush([evKey EXCEPT ![e] = t], heap, e)

\* A runTo that takes any time.
InvalidRunTo_Never(t, now) == FALSE

\* Clock.runTo, first line: the call is refused.
InvalidRunTo(t, now) == t < now

\* A limit test that lets one more cycle through.
LimitReached_Late(limit, n) == limit < n

\* Clock.runTo: the cycle limit is reached.
LimitReached(limit, n) == limit <= n

\* A stop test that runs the events at the target time as well.
StopAt_Inclusive(heap, T) == HeapPeek(heap) = 0 \/ T < ev[HeapPeek(heap)].time

\* Clock.runTo: no event is left to run before the target.
StopAt(heap, T) == HeapPeek(heap) = 0 \/ T <= ev[HeapPeek(heap)].time

\* A runTo that leaves the time where the last event put it.
ReturnTime_Stays(T, now) == now

\* Clock.runTo: the time the clock is given when the loop is left.
ReturnTime(T, now) == T

\* A list that keeps its elements.
Truncate_Keeps(list) == list

\* Clock.runTo and Clock.advance: this.preprocesses.length = 0.
Truncate(list) == <<>>

\* A clock that ignores the valid flag.
Skips_Never(valid) == FALSE

\* Clock.runTo: the popped event is skipped.
Skips(valid) == ~valid

\* The for-of loop over Clock.preprocesses: an array iterator reads the
\* length of the array at every step, so it reaches what is pushed meanwhile.
ForOfHasNext(list, idx) == idx <= Len(list)

\* The event object a callback of kind cancel holds a reference to.
CancelTarget(e) == (e % MaxEvents) + 1
PlainPre == [kind |-> "plain", arg |-> 0, addCycle |-> cycle,
             inStep |-> pc \in {"pre", "apre"}]

AgainPre == [kind |-> "again", arg |-> 0, addCycle |-> cycle,
             inStep |-> pc \in {"pre", "apre"}]

NoPre == [kind |-> "none", addCycle |-> 0, inStep |-> FALSE, runCycle |-> 0]

\* A top-level operation between two runTo calls: the locals of the call
\* that ended are dead, and what was observed of it is dropped.
Forget ==
    /\ result' = "none"
    /\ target' = 0
    /\ i' = 0
    /\ log' = <<>>
    /\ prelog' = NoPre
    /\ start' = {}
    /\ cycle0' = 0

\* ---------------------------------------------------------- PhysicsObject
\* A JavaScript Set is kept as the sequence of its elements in insertion
\* order, which is the order its iterator visits them in.
SetAdd(s, x) == IF x \in Range(s) THEN s ELSE Append(s, x)
SetDelete(s, x) == SelectSeq(s, LAMBDA y : y # x)

\* The objects a sequence of operations of one step works on: the
\* PhysicsObjects, the ClockEvent objects, Clock.events, Clock.preprocesses;
\* full is set when an event object is needed and EventIds holds none.
World == [obj |-> obj, ev |-> ev, events |-> events, pre |-> preprocesses,
          full |-> FALSE]

\* The key of Clock.events in a world.
worldKey(w) == [e \in EventIds |-> w.ev[e].time]

\* The key of the candidate heaps: (a, b) => a.earliestTime - b.earliestTime.
Candidates == [a : 1..(NObj + 1), b : 1..(NObj + 1), earliestTime : Times,
               rule : RulePair]
candKey == [c \in Candidates |-> c.earliestTime]

\* The ids that name no live ClockEvent object, and the one new ClockEvent
\* takes (0 when there is none).
FreeIds(w) == {e \in EventIds : w.ev[e].kind = "none"}
NewEventId(w) ==
    IF FreeIds(w) = {} THEN 0
    ELSE CHOOSE e \in FreeIds(w) : \A f \in FreeIds(w) : e <= f

\* An event object that is in no heap is never popped: its id is given back
\* and the references the objects hold to it are dropped.
Sweep(w) ==
    LET dead == {e \in EventIds : w.ev[e].kind # "none" /\ e \notin Range(w.events)}
    IN  [w EXCEPT !.ev = [e \in EventIds |-> IF e \in dead THEN NoEvent ELSE w.ev[e]],
                  !.obj = [o \in DOMAIN w.obj |->
                              [w.obj[o] EXCEPT !.relevantEvents = @ \ dead]]]

\* PhysicsObject.queueCollisionRecalculation.
queueCollisionRecalculation(w, o) ==
    IF w.obj[o].lastCollisionRecalculationCycle = cycle THEN w
    ELSE [w EXCEPT !.obj[o].lastCollisionRecalculationCycle = cycle,
                   !.pre = Append(@, [kind |-> "recalc", arg |-> o,
                                      addCycle |-> 0, inStep |-> FALSE])]

\* Trajectory.recalculateCollisions, Geometry.recalculateCollisions and
\* CollisionGroup.recalculateCollisions: the loop over the dependants.
RECURSIVE QueueAll(_, _)
QueueAll(w, s) ==
    IF s = <<>> THEN w
    ELSE QueueAll(queueCollisionRecalculation(w, Head(s)), Tail(s))

\* A clearCollisions that forgets the events and leaves them valid.
clearCollisions_Forgets(w, o) == [w EXCEPT !.obj[o].relevantEvents = {}]

\* PhysicsObject.clearCollisions.
clearCollisions(w, o) ==
    [w EXCEPT !.ev = [e \in EventIds |->
                         IF e \in w.obj[o].relevantEvents
                         THEN [w.ev[e] EXCEPT !.valid = FALSE]
                         ELSE w.ev[e]],
              !.obj[o].relevantEvents = {}]

\* generateCollisionCandidates(a, b, now, rule): a sequence of no or one
\* candidate.  box gives, for a pair of objects, the time their swept
\* bounding boxes first overlap (Infinity when they never do).
generateCollisionCandidates(a, b, r, box) ==
    IF a = b THEN <<>>
    ELSE IF box[{a, b}] < time \/ box[{a, b}] = Infinity THEN <<>>
    ELSE <<[a |-> a, b |-> b, earliestTime |-> box[{a, b}], rule |-> r]>>

\* CollisionRule.generateCandidatesForA(a), from the member at index k on.
RECURSIVE generateCandidatesForA(_, _, _, _)
generateCandidatesForA(a, r, k, box) ==
    LET bs == members[rules[r].groupB]
    IN  IF k > Len(bs) THEN <<>>
        ELSE generateCollisionCandidates(a, bs[k], r, box)
                 \o generateCandidatesForA(a, r, k + 1, box)

\* CollisionRule.generateCandidatesForB(b), from the member at index k on.
RECURSIVE generateCandidatesForB(_, _, _, _)
generateCandidatesForB(b, r, k, box) ==
    LET as == members[rules[r].groupA]
    IN  IF k > Len(as) THEN <<>>
        ELSE generateCollisionCandidates(as[k], b, r, box)
                 \o generateCandidatesForB(b, r, k + 1, box)

\* CollisionGroup.generateCollisionCandidates: the loops over collisionRulesA
\* and over collisionRulesB of group g, from the rule at index k on.
RECURSIVE forRulesA(_, _, _, _)
forRulesA(g, o, k, box) ==
    IF k > Len(collisionRulesA[g]) THEN <<>>
    ELSE generateCandidatesForA(o, collisionRulesA[g][k], 1, box)
             \o forRulesA(g, o, k + 1, box)

RECURSIVE forRulesB(_, _, _, _)
forRulesB(g, o, k, box) ==
    IF k > Len(collisionRulesB[g]) THEN <<>>
    ELSE generateCandidatesForB(o, collisionRulesB[g][k], 1, box)
             \o forRulesB(g, o, k + 1, box)

\* CollisionGroup.generateCollisionCandidates(object).
groupCandidates(g, o, box) == forRulesA(g, o, 1, box) \o forRulesB(g, o, 1, box)

\* recalculateCollisions: the candidates of every group of the object, from
\* the group at index k of collisionGroups on.
RECURSIVE allCandidates(_, _, _, _)
allCandidates(groups, o, k, box) ==
    IF k > Len(groups) THEN <<>>
    ELSE groupCandidates(groups[k], o, box) \o allCandidates(groups, o, k + 1, box)

\* Heap.push of every element of a sequence, in order.
RECURSIVE PushAll(_, _)
PushAll(heap, cs) ==
    IF cs = <<>> THEN heap
    ELSE PushAll(HeapPush(candKey, heap, Head(cs)), Tail(cs))

\* CollisionCandidate.calculateExact(now), createEvents: the events of the
\* contacts at the times ts, in order.  The result is the world and the
\* events created.
RECURSIVE createEvents(_, _, _, _)
createEvents(w, c, ts, made) ==
    IF ts = <<>> THEN [w |-> w, events |-> made]
    ELSE IF Head(ts) < time THEN createEvents(w, c, Tail(ts), made)
    ELSE LET e == NewEventId(w)
             t == Head(ts)
             recalculating == rules[c.rule].recalculating
             w1 == [w EXCEPT
                     !.ev[e] = [time |-> t, kind |-> "collision", arg |-> c.rule,
                                delay |-> 0, valid |-> TRUE, a |-> c.a, b |-> c.b],
                     !.obj[c.a].relevantEvents = @ \cup {e},
                     !.obj[c.b].relevantEvents = @ \cup {e},
                     !.obj[c.a].nextProbableRecalculation =
                         IF recalculating THEN Min(@, t) ELSE @,
                     !.obj[c.b].nextProbableRecalculation =
                         IF recalculating THEN Min(@, t) ELSE @]
         IN  IF e = 0 THEN [w |-> [w EXCEPT !.full = TRUE], events |-> made]
             ELSE createEvents(w1, c, Tail(ts), Append(made, e))

\* CollisionCandidate.calculateExact(now).  hits gives, for a pair of
\* objects, the times of the contacts vertexEdge finds; none of them is
\* earlier than the overlap of the bounding boxes.
calculateExact(w, c, hits) ==
    createEvents(w, c, SelectSeq(hits[{c.a, c.b}], LAMBDA t : c.earliestTime <= t),
                 <<>>)

\* addCollisions, first loop: for(const event of events), from index k on.
RECURSIVE pushRecalculating(_, _, _, _)
pushRecalculating(w, es, k, earliest) ==
    IF k > Len(es) THEN [w |-> w, earliest |-> earliest]
    ELSE IF w.ev[es[k]].time < time THEN [w |-> w, earliest |-> earliest]
    ELSE pushRecalculating(
             [w EXCEPT !.events = HeapPush(worldKey(w), @, es[k])],
             es, k + 1, w.ev[es[k]].time)

\* addCollisions, second loop: for(const event of events), from index k on.
RECURSIVE pushOther(_, _, _, _)
pushOther(w, es, k, earliest) ==
    IF k > Len(es) THEN w
    ELSE IF earliest < w.ev[es[k]].time THEN pushOther(w, es, k + 1, earliest)
    ELSE pushOther([w EXCEPT !.events = HeapPush(worldKey(w), @, es[k])],
                   es, k + 1, earliest)

\* A self-wake that the object does not record in its relevantEvents.
scheduleWake_Unrecorded(w, o, t) ==
    LET e == NewEventId(w)
    IN  IF e = 0 THEN [w EXCEPT !.full = TRUE]
        ELSE [w EXCEPT
               !.ev[e] = [time |-> t, kind |-> "wake", arg |-> 0, delay |-> 0,
                          valid |-> TRUE, a |-> o, b |-> 0],
               !.events = HeapPush([worldKey(w) EXCEPT ![e] = t], @, e)]

\* addCollisions: the self-wake event, new ClockEvent then Clock.schedule.
scheduleWake(w, o, t) ==
    LET e == NewEventId(w)
    IN  IF e = 0 THEN [w EXCEPT !.full = TRUE]
        ELSE [w EXCEPT
               !.ev[e] = [time |-> t, kind |-> "wake", arg |-> 0, delay |-> 0,
                          valid |-> TRUE, a |-> o, b |-> 0],
               !.obj[o].relevantEvents = @ \cup {e},
               !.events = IF InPast(t, time) THEN @
                          ELSE HeapPush([worldKey(w) EXCEPT ![e] = t], @, e)]

\* addCollisions, the second while loop: the candidate is popped before it
\* is compared with the cutoff.  removedAboveCutoff records that the call
\* took a candidate whose earliestTime is above the cutoff out of the heap.
RECURSIVE otherLoop(_, _, _, _)
otherLoop(w, o, hits, earliest) ==
    LET heap == w.obj[o].otherCollisionCandidates
    IN  IF heap = <<>> \/ w.full THEN w
        ELSE LET c == HeapPeek(heap)
                 w1 == [w EXCEPT !.obj[o].otherCollisionCandidates =
                                     HeapPop(candKey, heap)]
             IN  IF earliest < c.earliestTime
                 THEN [w1 EXCEPT !.obj[o].removedAboveCutoff = TRUE]
                 ELSE LET x == calculateExact(w1, c, hits)
                      IN  otherLoop(pushOther(x.w, x.events, 1, earliest),
                                    o, hits, earliest)

\* The least of a cutoff and the times of the events es.
RECURSIVE LeastOf(_, _, _)
LeastOf(w, es, least) ==
    IF es = <<>> THEN least
    ELSE LeastOf(w, Tail(es), Min(least, w.ev[Head(es)].time))

\* addCollisions, the first while loop.  cutoffAboveMin records whether, in
\* the call, earliestCollisionTime was left above the least of its value and
\* the times of the events a candidate gave.
RECURSIVE recalculatingLoop(_, _, _, _)
recalculatingLoop(w, o, hits, earliest) ==
    LET heap == w.obj[o].recalculatingCollisionCandidates
    IN  IF heap = <<>> \/ w.full THEN otherLoop(w, o, hits, earliest)
        ELSE LET c == HeapPeek(heap)
                 w1 == [w EXCEPT !.obj[o].recalculatingCollisionCandidates =
                                     HeapPop(candKey, heap)]
             IN  IF earliest < c.earliestTime
                 THEN otherLoop(scheduleWake(w, o, c.earliestTime), o, hits, earliest)
                 ELSE IF w.obj[o].lastRecalculation #
                             Max(w.obj[c.a].lastRecalculation,
                                 w.obj[c.b].lastRecalculation)
                 THEN recalculatingLoop(w1, o, hits, earliest)
                 ELSE LET x == calculateExact(w1, c, hits)
                          p == pushRecalculating(x.w, x.events, 1, earliest)
                          above == p.earliest > LeastOf(x.w, x.events, earliest)
                      IN  recalculatingLoop(
                              [p.w EXCEPT !.obj[o].cutoffAboveMin = @ \/ above],
                              o, hits, p.earliest)

\* PhysicsObject.addCollisions.
addCollisions(w, o, hits) ==
    recalculatingLoop([w EXCEPT !.obj[o].nextProbableRecalculation = Infinity,
                                !.obj[o].cutoffAboveMin = FALSE,
                                !.obj[o].removedAboveCutoff = FALSE],
                      o, hits, w.obj[o].nextProbableRecalculation)

\* PhysicsObject.recalculateCollisions.
recalculateCollisions(w, o, box, hits) ==
    LET w1 == [w EXCEPT !.obj[o].lastRecalculation = time]
        cs == allCandidates(w.obj[o].collisionGroups, o, 1, box)
        w2 == clearCollisions(w1, o)
        w3 == [w2 EXCEPT
                !.obj[o].nextProbableRecalculation = Infinity,
                !.obj[o].recalculatingCollisionCandidates =
                    PushAll(<<>>, SelectSeq(cs, LAMBDA c : rules[c.rule].recalculating)),
                !.obj[o].otherCollisionCandidates =
                    PushAll(<<>>, SelectSeq(cs, LAMBDA c : ~rules[c.rule].recalculating))]
    IN  IF w.obj[o].disabled THEN w1 ELSE addCollisions(w3, o, hits)

\* What the geometry and collision code is asked in one step: for every
\* pair of objects, the time the bounding boxes overlap and the contacts.
\* Only the pairs that a rule joins are asked about.
AllPairs == {{a, b} : a, b \in DOMAIN obj} \ {{a} : a \in DOMAIN obj}
Joined ==
    {p \in AllPairs :
        \E r \in DOMAIN rules, a \in p, b \in p :
            /\ a # b
            /\ a \in Range(members[rules[r].groupA])
            /\ b \in Range(members[rules[r].groupB])}
BoxChoices ==
    {box \in [AllPairs -> Times \cup {Infinity}] :
        \A p \in AllPairs \ Joined : box[p] = Infinity}
HitChoices ==
    {hits \in [AllPairs -> UNION {[1..n -> Times] : n \in 0..MaxHits}] :
        \A p \in AllPairs \ Joined : hits[p] = <<>>}

\* The answers about the pairs object o is in, nothing being said of the
\* other pairs.
Around(o) == {p \in Joined : o \in p}
BoxChoicesOf(o) ==
    {[p \in AllPairs |-> IF p \in Around(o) THEN f[p] ELSE Infinity] :
        f \in [Around(o) -> Times \cup {Infinity}]}
HitChoicesOf(o) ==
    {[p \in AllPairs |-> IF p \in Around(o) THEN f[p] ELSE <<>>] :
        f \in [Around(o) -> UNION {[1..n -> Times] : n \in 0..MaxHits}]}

\* What recalculateCollisions of object o asks: the boxes of the pairs o is
\* in, and the contacts of those whose boxes overlap now or later, none of
\* them before the overlap.  The other answers are left at nothing.
Asked(o, box, hits) ==
    \A p \in AllPairs :
        /\ o \notin p => box[p] = Infinity
        /\ (o \notin p \/ box[p] = Infinity \/ box[p] < time) => hits[p] = <<>>
        /\ \A k \in 1..Len(hits[p]) : box[p] <= hits[p][k]

\* What addCollisions of object o asks when a self-wake calls it: the
\* contacts of the candidates o still holds.
AskedExact(o, hits) ==
    \A p \in AllPairs :
        hits[p] # <<>> =>
            \E c \in Range(obj[o].recalculatingCollisionCandidates)
                      \cup Range(obj[o].otherCollisionCandidates) :
                /\ {c.a, c.b} = p
                /\ \A k \in 1..Len(hits[p]) : c.earliestTime <= hits[p][k]

\* The world of a step takes the place of the state.
Commit(w) ==
    /\ ~w.full
    /\ obj' = w.obj
    /\ ev' = w.ev
    /\ events' = w.events
    /\ preprocesses' = w.pre

\* The objects of a sequence of dependants that are enabled.
Enabled(deps) == {o \in Range(deps) : ~obj[o].disabled}

\* Trajectory.modify, Trajectory.setTransform, Geometry.modify: the mutation
\* itself, then recalculateCollisions() over the dependants deps.
MutateFrom(w0, deps) ==
    /\ Commit(QueueAll(w0, deps))
    /\ dirty' = dirty \cup Enabled(deps)
    /\ UNCHANGED <<gdeps, tdeps, members, ruleVars, trajVars, valueVars>>

\* PhysicsObject.disable.
DisableFrom(w0, o) ==
    /\ Commit([clearCollisions(w0, o) EXCEPT !.obj[o].disabled = TRUE])
    /\ gdeps' = [gdeps EXCEPT ![obj[o].geometry] = SetDelete(@, o)]
    /\ tdeps' = [tdeps EXCEPT ![obj[o].trajectory] = SetDelete(@, o)]
    /\ members' = [g \in Groups |->
                      IF g \in Range(obj[o].collisionGroups)
                      THEN SetDelete(members[g], o)
                      ELSE members[g]]
    /\ dirty' = dirty \ {o}
    /\ UNCHANGED <<ruleVars, trajVars, valueVars>>

\* PhysicsObject.enable.
EnableFrom(w0, o) ==
    /\ Commit([queueCollisionRecalculation(w0, o) EXCEPT !.obj[o].disabled = FALSE])
    /\ gdeps' = [gdeps EXCEPT ![obj[o].geometry] = SetAdd(@, o)]
    /\ tdeps' = [tdeps EXCEPT ![obj[o].trajectory] = SetAdd(@, o)]
    /\ members' = [g \in Groups |->
                      IF g \in Range(obj[o].collisionGroups)
                      THEN SetAdd(members[g], o)
                      ELSE members[g]]
    /\ UNCHANGED <<ruleVars, trajVars, valueVars, dirty>>

\* The objects CollisionGroup.recalculateCollisions of the groups of rule r
\* goes through: the members of groupA, then those of groupB.
MembersA(r) == members[rules[r].groupA]
MembersB(r) == members[rules[r].groupB]

\* Whether rule r is in the sets of its two groups.
RuleOn(r) ==
    /\ r \in Range(collisionRulesA[rules[r].groupA])
    /\ r \in Range(collisionRulesB[rules[r].groupB])

\* CollisionRule.disable.
RuleDisableFrom(w0, r) ==
    /\ collisionRulesA' = [collisionRulesA EXCEPT ![rules[r].groupA] = SetDelete(@, r)]
    /\ collisionRulesB' = [collisionRulesB EXCEPT ![rules[r].groupB] = SetDelete(@, r)]
    /\ Commit(QueueAll(QueueAll(w0, MembersA(r)), MembersB(r)))
    /\ dirty' = dirty \cup Enabled(MembersA(r) \o MembersB(r))
    /\ UNCHANGED <<gdeps, tdeps, members, rules, trajVars, valueVars>>

\* CollisionRule.enable.
RuleEnableFrom(w0, r) ==
    /\ collisionRulesA' = [collisionRulesA EXCEPT ![rules[r].groupA] = SetAdd(@, r)]
    /\ collisionRulesB' = [collisionRulesB EXCEPT ![rules[r].groupB] = SetAdd(@, r)]
    /\ Commit(QueueAll(w0, MembersA(r)))
    /\ dirty' = dirty \cup Enabled(MembersA(r))
    /\ UNCHANGED <<gdeps, tdeps, members, rules, trajVars, valueVars>>

\* What the callback of a rule does with the collision it is given:
\* nothing, Collision.resolve (an impulse on both trajectories), or
\* objB.disable(); the callback of a rule that is not recalculating changes
\* neither object.
RuleCallbacks(r) ==
    IF rules[r].recalculating THEN {"none", "resolve", "disable"} ELSE {"none"}

\* The clock, the timing helpers and the locals of runTo after construction.
InitClock ==
    /\ time = 0
    /\ cycle = 0
    /\ events = <<>>
    /\ ev = [e \in EventIds |-> NoEvent]
    /\ pc = "idle"
    /\ target = 0
    /\ i = 0
    /\ pidx = 1
    /\ cur = 0
    /\ result = "none"
    /\ log = <<>>
    /\ prelog = NoPre
    /\ start = {}
    /\ cycle0 = 0
    /\ nextEv = 1
    /\ loops = {}
    /\ id = 0
    /\ handles = <<>>
    /\ cancelled = {}

\* new Trajectory(clock): base the identity, motion zero, anchored at the
\* time of the clock.
InitTraj ==
    /\ trj = [base |-> Identity, motion |-> Zero, time |-> 0]
    /\ tlast = NoCall
    /\ trjAB = <<[base |-> Identity, motion |-> Zero, time |-> 0],
                 [base |-> Identity, motion |-> Zero, time |-> 0]>>
    /\ rlast = NoResolve
    /\ gb = NewBuilder
    /\ glast = NoBuild
    /\ vlast = NoSolve
    /\ clast = NoGenerate
    /\ hp = NewHeap

\* A program that constructs a Clock and no PhysicsObject.
Init ==
    /\ InitClock
    /\ preprocesses = <<>>
    /\ obj = <<>>
    /\ gdeps = <<>>
    /\ tdeps = <<>>
    /\ members = <<>>
    /\ rules = <<>>
    /\ collisionRulesA = <<>>
    /\ collisionRulesB = <<>>
    /\ InitTraj
    /\ dirty = {}
    /\ ops = 0

\* The group object o is constructed in.
GroupOf(o) == ((o - 1) % NGroup) + 1

\* new PhysicsObject(clock, geometry, [group], trajectory): the fields, after
\* the enable() of the constructor queued the first recalculation.
NewObject(o) ==
    [disabled |-> FALSE,
     geometry |-> 1,
     trajectory |-> o,
     collisionGroups |-> <<GroupOf(o)>>,
     relevantEvents |-> {},
     lastCollisionRecalculationCycle |-> 0,
     recalculatingCollisionCandidates |-> <<>>,
     otherCollisionCandidates |-> <<>>,
     nextProbableRecalculation |-> Infinity,
     lastRecalculation |-> NegInfinity,
     cutoffAboveMin |-> FALSE,
     removedAboveCutoff |-> FALSE]

\* A program that constructs a Clock, the geometries, the groups, the rules
\* (from group 1 to group 2, recalculating or not) and then the objects,
\* every object enabled, with the first geometry and a trajectory of its own.
InitPhys ==
    /\ InitClock
    /\ preprocesses = [o \in Objs |-> [kind |-> "recalc", arg |-> o, addCycle |-> 0,
                                       inStep |-> FALSE]]
    /\ obj = [o \in Objs |-> NewObject(o)]
    /\ gdeps = [g \in Geos |-> IF g = 1 THEN [o \in Objs |-> o] ELSE <<>>]
    /\ tdeps = [t \in Trajs |-> <<t>>]
    /\ members = [g \in Groups |->
                     SelectSeq([o \in Objs |-> o], LAMBDA o : GroupOf(o) = g)]
    /\ rules \in [Rules -> [groupA : {1}, groupB : {NGroup}, recalculating : BOOLEAN]]
    /\ collisionRulesA = [g \in Groups |->
                SelectSeq([r \in Rules |-> r], LAMBDA r : rules[r].groupA = g)]
    /\ collisionRulesB = [g \in Groups |->
                SelectSeq([r \in Rules |-> r], LAMBDA r : rules[r].groupB = g)]
    /\ InitTraj
    /\ dirty = {}
    /\ ops = 0

\* A program that constructed a Clock, three PhysicsObjects with a trajectory
\* each and a recalculating rule, and ran the clock once, to time 0, with
\* the objects apart and at rest: each object has recalculated and holds no
\* candidate, and no event is pending.
Settled(o) == [NewObject(o) EXCEPT !.lastRecalculation = 0]

InitTrio ==
    /\ time = 0
    /\ cycle = 1
    /\ events = <<>>
    /\ ev = [e \in EventIds |-> NoEvent]
    /\ pc = "idle"
    /\ target = 0
    /\ i = 0
    /\ pidx = 1
    /\ cur = 0
    /\ result = "returned"
    /\ log = <<>>
    /\ prelog = NoPre
    /\ start = {}
    /\ cycle0 = 0
    /\ nextEv = 1
    /\ loops = {}
    /\ id = 0
    /\ handles = <<>>
    /\ cancelled = {}
    /\ preprocesses = <<>>
    /\ obj = [o \in Trio |-> Settled(o)]
    /\ gdeps = [g \in Geos |-> IF g = 1 THEN [o \in Trio |-> o] ELSE <<>>]
    /\ tdeps = [t \in Trio |-> <<t>>]
    /\ members = [g \in Groups |->
                     SelectSeq([o \in Trio |-> o], LAMBDA o : GroupOf(o) = g)]
    /\ rules \in [Rules -> [groupA : {1}, groupB : {NGroup}, recalculating : {TRUE}]]
    /\ collisionRulesA = [g \in Groups |->
                SelectSeq([r \in Rules |-> r], LAMBDA r : rules[r].groupA = g)]
    /\ collisionRulesB = [g \in Groups |->
                SelectSeq([r \in Rules |-> r], LAMBDA r : rules[r].groupB = g)]
    /\ InitTraj
    /\ dirty = {}
    /\ ops = 0

\* The same program with two rules from group 1 to group 2, the first
\* recalculating and the second not.
InitMixed ==
    /\ time = 0
    /\ cycle = 1
    /\ events = <<>>
    /\ ev = [e \in EventIds |-> NoEvent]
    /\ pc = "idle"
    /\ target = 0
    /\ i = 0
    /\ pidx = 1
    /\ cur = 0
    /\ result = "returned"
    /\ log = <<>>
    /\ prelog = NoPre
    /\ start = {}
    /\ cycle0 = 0
    /\ nextEv = 1
    /\ loops = {}
    /\ id = 0
    /\ handles = <<>>
    /\ cancelled = {}
    /\ preprocesses = <<>>
    /\ obj = [o \in Trio |-> Settled(o)]
    /\ gdeps = [g \in Geos |-> IF g = 1 THEN [o \in Trio |-> o] ELSE <<>>]
    /\ tdeps = [t \in Trio |-> <<t>>]
    /\ members = [g \in Groups |->
                     SelectSeq([o \in Trio |-> o], LAMBDA o : GroupOf(o) = g)]
    /\ rules = [r \in RulePair |->
                   [groupA |-> 1, groupB |-> NGroup, recalculating |-> r = 1]]
    /\ collisionRulesA = [g \in Groups |->
                SelectSeq([r \in RulePair |-> r], LAMBDA r : rules[r].groupA = g)]
    /\ collisionRulesB = [g \in Groups |->
                SelectSeq([r \in RulePair |-> r], LAMBDA r : rules[r].groupB = g)]
    /\ InitTraj
    /\ dirty = {}
    /\ ops = 0

\* schedule(clock, time, callback) of the timing helpers, at top level:
\* a new ClockEvent, then Clock.schedule.
Schedule(t, k) ==
    /\ pc = "idle"
    /\ nextEv \in EventIds
    /\ LET e == nextEv
           heap == ClockSchedule(events, e, t, time)
       IN  /\ events' = heap
           /\ ev' = IF e \in Range(heap)
                     THEN [ev EXCEPT ![e] = [time |-> t, kind |-> k, arg |-> 0,
                                             delay |-> 0, valid |-> TRUE,
                                             a |-> 0, b |-> 0]]
                     ELSE ev
    /\ nextEv' = nextEv + 1
    /\ Forget
    /\ UNCHANGED <<time, cycle, preprocesses, pc, pidx, cur, loopVars, physVars>>

\* cancel(event), ClockEvent.cancel, or event.valid = b, at top level, on an
\* event the caller kept a reference to (the plain ones).
SetValid(e, b) ==
    /\ pc = "idle"
    /\ InHeap(e)
    /\ ev[e].kind = "plain"
    /\ ev[e].valid # b
    /\ ev' = [ev EXCEPT ![e].valid = b]
    /\ Forget
    /\ UNCHANGED <<time, cycle, events, preprocesses, pc, pidx, cur, nextEv,
                   loopVars, physVars>>

\* Clock.addPreprocess at top level.
AddPreprocess(k) ==
    /\ pc = "idle"
    /\ Len(preprocesses) < MaxPre
    /\ preprocesses' = Append(preprocesses,
                              [kind |-> k, arg |-> 0, addCycle |-> cycle,
                               inStep |-> FALSE])
    /\ Forget
    /\ UNCHANGED <<time, cycle, events, ev, pc, pidx, cur, nextEv, loopVars, physVars>>

\* Clock.runTo(T): the call and its first line.
RunTo(T) ==
    /\ pc = "idle"
    /\ cycle < MaxCycle
    /\ IF InvalidRunTo(T, time)
       THEN /\ result' = "invalid-time"
            /\ UNCHANGED <<pc, target, i, log, start, cycle0>>
       ELSE /\ result' = "none"
            /\ pc' = "loop"
            /\ target' = T
            /\ i' = 0
            /\ log' = <<>>
            /\ start' = {[id |-> e, time |-> ev[e].time, kind |-> ev[e].kind,
                             valid |-> ev[e].valid] : e \in Range(events)}
            /\ cycle0' = cycle
    /\ UNCHANGED <<time, cycle, events, preprocesses, ev, pidx, cur, prelog,
                   nextEv, loopVars, physVars>>

\* Clock.runTo: the top of the while loop.
BeginCycle ==
    /\ pc = "loop"
    /\ IF LimitReached(runToCycleLimit, i)
       THEN /\ pc' = "idle"
            /\ result' = "cycle-limit"
            /\ UNCHANGED <<i, pidx>>
       ELSE /\ i' = i + 1
            /\ pc' = "pre"
            /\ pidx' = 1
            /\ UNCHANGED result
    /\ UNCHANGED <<time, cycle, events, preprocesses, ev, target, cur, log,
                   prelog, start, cycle0, nextEv, loopVars, physVars>>

\* Clock.runTo: one step of the for-of loop, preprocess(this.cycle).
\*   recalc  the closure of queueCollisionRecalculation
\*   mutate  a user preprocess that calls a mutator of a Trajectory
\*   ruleoff a user preprocess that calls disable() of a CollisionRule
RunPreprocess ==
    /\ pc \in {"pre", "apre"}
    /\ ForOfHasNext(preprocesses, pidx)
    /\ preprocesses[pidx].kind = "again" => Len(preprocesses) < MaxList
    /\ LET p == preprocesses[pidx]
       IN  /\ prelog' = [kind |-> p.kind, addCycle |-> p.addCycle,
                         inStep |-> p.inStep, runCycle |-> cycle]
           /\ CASE p.kind = "recalc" ->
                    \E box \in BoxChoicesOf(p.arg), hits \in HitChoicesOf(p.arg) :
                        /\ Asked(p.arg, box, hits)
                        /\ Commit(Sweep(recalculateCollisions(World, p.arg, box, hits)))
                        /\ dirty' = dirty \ {p.arg}
                        /\ UNCHANGED <<gdeps, tdeps, members, ruleVars, trajVars, valueVars>>
                [] p.kind = "mutate" ->
                    MutateFrom(World, tdeps[p.arg])
                [] p.kind = "ruleoff" ->
                    RuleDisableFrom(World, p.arg)
                [] OTHER ->
                    /\ preprocesses' = IF p.kind = "adder"
                                       THEN Append(preprocesses, PlainPre)
                                       ELSE IF p.kind = "again"
                                       THEN Append(preprocesses, AgainPre)
                                       ELSE preprocesses
                    /\ UNCHANGED <<events, ev, obj, physRest>>
    /\ pidx' = pidx + 1
    /\ UNCHANGED <<time, cycle, pc, target, i, cur, result, log,
                   start, cycle0, nextEv, loopVars, ops>>

\* Clock.runTo: after the for-of loop, up to the invocation of the callback.
SelectEvent ==
    /\ pc = "pre"
    /\ ~ForOfHasNext(preprocesses, pidx)
    /\ preprocesses' = Truncate(preprocesses)
    /\ cycle' = cycle + 1
    /\ IF StopAt(events, target)
       THEN /\ time' = ReturnTime(target, time)
            /\ pc' = "idle"
            /\ result' = "returned"
            /\ UNCHANGED <<events, ev, cur, obj>>
       ELSE LET e == HeapPeek(events)
                popped == [World EXCEPT !.events = HeapPop(evKey, events)]
            IN  /\ events' = popped.events
                /\ UNCHANGED result
                /\ IF Skips(ev[e].valid)
                   THEN /\ pc' = "loop"
                        /\ ev' = Sweep(popped).ev
                        /\ obj' = Sweep(popped).obj
                        /\ UNCHANGED <<time, cur>>
                   ELSE /\ time' = ev[e].time
                        /\ pc' = "callback"
                        /\ cur' = e
                        /\ UNCHANGED <<ev, obj>>
    /\ UNCHANGED <<target, i, pidx, log, prelog, start, cycle0, nextEv, loopVars,
                   gdeps, tdeps, members, ruleVars, trajVars, valueVars, dirty, ops>>

\* ------------------------------------------------- Calls inside a callback
\* The kinds of event whose callback calls back into the clock.
NestKinds == {"adv", "runto"}

\* The clock as a callback sees it.  No callback of these kinds adds a
\* preprocess, and the list is empty when a callback is invoked, so the
\* for-of loops of the calls below have nothing to run.
NestWorld == [events |-> events, ev |-> ev, time |-> time, cycle |-> cycle,
              log |-> log, thrown |-> FALSE]

RECURSIVE Invoke(_, _), NestedAdvance(_), NestedRunTo(_, _, _)

\* event.callback(clock) for the event e just popped, run to its end.
Invoke(cw, e) ==
    LET r == cw.ev[e]
        logged == [cw EXCEPT !.log = Append(@, [id |-> e, etime |-> r.time,
                                                now |-> cw.time, kind |-> r.kind,
                                                arg |-> r.arg]),
                             !.ev[e] = NoEvent]
    IN  CASE r.kind = "adv" -> NestedAdvance(logged)
          [] r.kind = "runto" -> NestedRunTo(logged, MaxTime, 0)
          [] r.kind = "past" /\ ~InPast(r.time - 1, cw.time) ->
                [logged EXCEPT !.ev[e] = [r EXCEPT !.time = r.time - 1],
                               !.events = HeapPush([worldKey(cw) EXCEPT ![e] = r.time - 1],
                                                   cw.events, e)]
          [] OTHER -> logged

\* Clock.advance called by a callback.
NestedAdvance(cw) ==
    LET e == HeapPeek(cw.events)
        next == [cw EXCEPT !.cycle = @ + 1]
        popped == [next EXCEPT !.events = HeapPop(worldKey(cw), cw.events)]
    IN  IF e = 0 THEN next
        ELSE IF Skips(cw.ev[e].valid)
             THEN NestedAdvance([popped EXCEPT !.ev[e] = NoEvent])
             ELSE Invoke([popped EXCEPT !.time = cw.ev[e].time], e)

\* Clock.runTo(T) called by a callback, from iteration n of its loop on.
NestedRunTo(cw, T, n) ==
    LET e == HeapPeek(cw.events)
        next == [cw EXCEPT !.cycle = @ + 1]
        popped == [next EXCEPT !.events = HeapPop(worldKey(cw), cw.events)]
        done == Invoke([popped EXCEPT !.time = cw.ev[e].time], e)
    IN  IF LimitReached(runToCycleLimit, n) THEN [cw EXCEPT !.thrown = TRUE]
        ELSE IF e = 0 \/ T <= cw.ev[e].time
             THEN [next EXCEPT !.time = ReturnTime(T, cw.time)]
        ELSE IF Skips(cw.ev[e].valid)
             THEN NestedRunTo([popped EXCEPT !.ev[e] = NoEvent], T, n + 1)
        ELSE IF done.thrown THEN done
        ELSE NestedRunTo(done, T, n + 1)

\* scheduleLoop: the time of the iteration after the one at `t`; before it,
\* one that repeats the iteration at the same time.
NextIteration_Same(t, delay) == t
NextIteration(t, delay) == t + delay

\* The body of an event callback, by kind; the loop kind is the closure
\* built by iteration(time) in scheduleLoop.
CallbackBody(e) ==
    LET r == ev[e]
        logged == Append(log, [id |-> e, etime |-> r.time, now |-> time,
                               kind |-> r.kind, arg |-> r.arg])
    IN
    CASE r.kind = "self" ->
            /\ events' = ClockSchedule(events, e, r.time, time)
            /\ ev' = IF InPast(r.time, time) THEN [ev EXCEPT ![e] = NoEvent] ELSE ev
            /\ log' = logged
            /\ UNCHANGED <<preprocesses, loopVars, obj, physRest>>
      [] r.kind = "cancel" ->
            /\ ev' = [f \in EventIds |->
                        IF f = e THEN NoEvent
                        ELSE IF f = CancelTarget(e) /\ ev[f].kind # "none"
                             THEN [ev[f] EXCEPT !.valid = FALSE]
                             ELSE ev[f]]
            /\ log' = logged
            /\ UNCHANGED <<events, preprocesses, loopVars, obj, physRest>>
      [] r.kind = "past" ->
            /\ events' = ClockSchedule(events, e, r.time - 1, time)
            /\ ev' = IF InPast(r.time - 1, time) THEN [ev EXCEPT ![e] = NoEvent]
                     ELSE [ev EXCEPT ![e].time = r.time - 1]
            /\ log' = logged
            /\ UNCHANGED <<preprocesses, loopVars, obj, physRest>>
      [] r.kind = "addpre" ->
            /\ preprocesses' = Append(preprocesses, PlainPre)
            /\ ev' = [ev EXCEPT ![e] = NoEvent]
            /\ log' = logged
            /\ UNCHANGED <<events, loopVars, obj, physRest>>
      [] r.kind = "loop" ->
            IF r.arg \notin loops
            THEN /\ ev' = [ev EXCEPT ![e] = NoEvent]
                 /\ UNCHANGED <<events, preprocesses, log, loopVars, obj, physRest>>
            ELSE /\ log' = logged
                 /\ events' = ClockSchedule(events, e, NextIteration(r.time, r.delay), time)
                 /\ ev' = [ev EXCEPT ![e].time = NextIteration(r.time, r.delay)]
                 /\ UNCHANGED <<preprocesses, loopVars, obj, physRest>>
      [] r.kind = "wake" ->
            /\ \E hits \in HitChoicesOf(r.a) :
                   /\ AskedExact(r.a, hits)
                   /\ Commit(Sweep(addCollisions(Sweep(World), r.a, hits)))
            /\ log' = logged
            /\ UNCHANGED <<loopVars, gdeps, tdeps, members, ruleVars, trajVars, valueVars, dirty>>
      [] r.kind = "collision" ->
            /\ \E does \in RuleCallbacks(r.arg) :
                   CASE does = "resolve" ->
                            MutateFrom(Sweep(World), tdeps[obj[r.a].trajectory]
                                                        \o tdeps[obj[r.b].trajectory])
                     [] does = "disable" ->
                            DisableFrom(Sweep(World), r.b)
                     [] OTHER ->
                            /\ Commit(Sweep(World))
                            /\ UNCHANGED physRest
            /\ log' = logged
            /\ UNCHANGED loopVars
      [] OTHER ->
            /\ ev' = [ev EXCEPT ![e] = NoEvent]
            /\ log' = logged
            /\ UNCHANGED <<events, preprocesses, loopVars, obj, physRest>>

\* Clock.runTo: event.callback(this), then back to the top of the loop.
Callback ==
    /\ pc = "callback"
    /\ ev[cur].kind \notin NestKinds
    /\ CallbackBody(cur)
    /\ pc' = "loop"
    /\ cur' = 0
    /\ UNCHANGED <<time, cycle, target, i, pidx, result, prelog, start, cycle0,
                   nextEv, ops>>

\* What a callback that calls back into the clock leaves behind.
NestedBody(cw) ==
    /\ events' = cw.events
    /\ ev' = cw.ev
    /\ time' = cw.time
    /\ cycle' = cw.cycle
    /\ log' = cw.log
    /\ UNCHANGED <<preprocesses, loopVars, obj, physRest>>

\* Clock.runTo: event.callback(this) for a callback that calls advance or
\* runTo on this clock; an exception of the inner call leaves the outer one.
NestedCallback ==
    /\ pc = "callback"
    /\ ev[cur].kind \in NestKinds
    /\ LET cw == Invoke(NestWorld, cur)
       IN  /\ NestedBody(cw)
           /\ IF cw.thrown
              THEN pc' = "idle" /\ result' = "cycle-limit"
              ELSE pc' = "loop" /\ UNCHANGED result
    /\ cur' = 0
    /\ UNCHANGED <<target, i, pidx, prelog, start, cycle0, nextEv, ops>>

\* Clock.advance() at top level: the call, up to the for-of loop.
Advance ==
    /\ pc = "idle"
    /\ cycle < MaxCycle
    /\ pc' = "apre"
    /\ pidx' = 1
    /\ result' = "none"
    /\ target' = 0
    /\ i' = 0
    /\ log' = <<>>
    /\ start' = {[id |-> e, time |-> ev[e].time, kind |-> ev[e].kind,
                     valid |-> ev[e].valid] : e \in Range(events)}
    /\ cycle0' = cycle
    /\ UNCHANGED <<time, cycle, events, preprocesses, ev, cur, prelog,
                   nextEv, loopVars, physVars>>

\* Clock.advance: after the for-of loop, the list is cleared, the cycle
\* counted and the next event popped; an invalid one restarts the loop.
AdvanceSelect ==
    /\ pc = "apre"
    /\ ~ForOfHasNext(preprocesses, pidx)
    /\ preprocesses' = Truncate(preprocesses)
    /\ cycle' = cycle + 1
    /\ LET e == HeapPeek(events)
           popped == [World EXCEPT !.events = HeapPop(evKey, events)]
       IN  IF e = 0
           THEN /\ pc' = "idle"
                /\ result' = "false"
                /\ UNCHANGED <<time, events, ev, cur, obj, pidx>>
           ELSE /\ events' = popped.events
                /\ UNCHANGED result
                /\ IF Skips(ev[e].valid)
                   THEN /\ pidx' = 1
                        /\ ev' = Sweep(popped).ev
                        /\ obj' = Sweep(popped).obj
                        /\ UNCHANGED <<time, cur, pc>>
                   ELSE /\ time' = ev[e].time
                        /\ pc' = "acallback"
                        /\ cur' = e
                        /\ UNCHANGED <<ev, obj, pidx>>
    /\ UNCHANGED <<target, i, log, prelog, start, cycle0, nextEv, loopVars,
                   physRest, ops>>

\* Clock.advance: event.callback(this), then return true.
AdvanceCallback ==
    /\ pc = "acallback"
    /\ IF ev[cur].kind \in NestKinds
       THEN LET cw == Invoke(NestWorld, cur)
            IN  /\ NestedBody(cw)
                /\ result' = IF cw.thrown THEN "cycle-limit" ELSE "true"
       ELSE /\ CallbackBody(cur)
            /\ result' = "true"
            /\ UNCHANGED <<time, cycle>>
    /\ pc' = "idle"
    /\ cur' = 0
    /\ UNCHANGED <<target, i, pidx, prelog, start, cycle0, nextEv, ops>>

\* ---------------------------------------------------------- timing helpers
\* scheduleLoop: the value handed back to the caller, read after id++.
ScheduleLoopReturn(thisId, idAfter) == idAfter

\* scheduleLoop(clock, startTime, delay, callback) at top level.  The event
\* of the first iteration is created here; each later one by the callback
\* of the one before (CallbackBody, kind loop).
ScheduleLoop(startTime, delay) ==
    /\ pc = "idle"
    /\ id < MaxLoops
    /\ nextEv \in EventIds
    /\ LET thisId == id
           e == nextEv
           heap == ClockSchedule(events, e, startTime, time)
       IN  /\ loops' = loops \cup {thisId}
           /\ id' = id + 1
           /\ handles' = Append(handles, ScheduleLoopReturn(thisId, id + 1))
           /\ events' = heap
           /\ ev' = IF e \in Range(heap)
                     THEN [ev EXCEPT ![e] = [time |-> startTime, kind |-> "loop",
                                             arg |-> thisId, delay |-> delay,
                                             valid |-> TRUE, a |-> 0, b |-> 0]]
                     ELSE ev
    /\ nextEv' = nextEv + 1
    /\ Forget
    /\ UNCHANGED <<time, cycle, preprocesses, pc, pidx, cur, cancelled, physVars>>

\* cancelLoop(h) at top level, h being a value scheduleLoop returned.
CancelLoop(h) ==
    /\ pc = "idle"
    /\ h \in Range(handles)
    /\ loops' = loops \ {h}
    /\ cancelled' = cancelled \cup {k - 1 : k \in {j \in 1..Len(handles) : handles[j] = h}}
    /\ Forget
    /\ UNCHANGED <<time, cycle, events, preprocesses, ev, pc, pidx, cur, nextEv,
                   id, handles, physVars>>

\* ------------------------------------------- PhysicsObject, at top level
\* The program is at top level, a runTo can still follow, and the program
\* has not done MaxOps operations on its objects yet.
TopLevel ==
    /\ pc = "idle"
    /\ cycle < MaxCycle
    /\ ops < MaxOps
    /\ ops' = ops + 1

\* object.disable() on an enabled object.
Disable(o) ==
    /\ TopLevel
    /\ ~obj[o].disabled
    /\ DisableFrom(World, o)
    /\ Forget
    /\ UNCHANGED <<time, cycle, pc, pidx, cur, nextEv, loopVars>>

\* object.enable() on a disabled object.
Enable(o) ==
    /\ TopLevel
    /\ obj[o].disabled
    /\ EnableFrom(World, o)
    /\ Forget
    /\ UNCHANGED <<time, cycle, pc, pidx, cur, nextEv, loopVars>>

\* object.setGeometry(g), g not the geometry it has.
SetGeometry(o, g) ==
    /\ TopLevel
    /\ g # obj[o].geometry
    /\ gdeps' = [gdeps EXCEPT ![obj[o].geometry] = SetDelete(@, o),
                              ![g] = SetAdd(@, o)]
    /\ Commit(queueCollisionRecalculation([World EXCEPT !.obj[o].geometry = g], o))
    /\ Forget
    /\ UNCHANGED <<time, cycle, pc, pidx, cur, nextEv, loopVars, tdeps, members,
                   ruleVars, trajVars, valueVars, dirty>>

\* object.setTrajectory(t), t not the trajectory it has.
SetTrajectory(o, t) ==
    /\ TopLevel
    /\ t # obj[o].trajectory
    /\ tdeps' = [tdeps EXCEPT ![obj[o].trajectory] = SetDelete(@, o),
                              ![t] = SetAdd(@, o)]
    /\ Commit(queueCollisionRecalculation([World EXCEPT !.obj[o].trajectory = t], o))
    /\ Forget
    /\ UNCHANGED <<time, cycle, pc, pidx, cur, nextEv, loopVars, gdeps, members,
                   ruleVars, trajVars, valueVars, dirty>>

\* object.addCollision(g).
AddCollision(o, g) ==
    /\ TopLevel
    /\ members' = [members EXCEPT ![g] = SetAdd(@, o)]
    /\ Commit(queueCollisionRecalculation(
                  [World EXCEPT !.obj[o].collisionGroups = SetAdd(@, g)], o))
    /\ dirty' = dirty \cup Enabled(<<o>>)
    /\ Forget
    /\ UNCHANGED <<time, cycle, pc, pidx, cur, nextEv, loopVars, gdeps, tdeps,
                   ruleVars, trajVars, valueVars>>

\* object.deleteCollision(g), g a group of the object.
DeleteCollision(o, g) ==
    /\ TopLevel
    /\ g \in Range(obj[o].collisionGroups)
    /\ members' = [members EXCEPT ![g] = SetDelete(@, o)]
    /\ Commit(queueCollisionRecalculation(
                  [World EXCEPT !.obj[o].collisionGroups = SetDelete(@, g)], o))
    /\ dirty' = dirty \cup Enabled(<<o>>)
    /\ Forget
    /\ UNCHANGED <<time, cycle, pc, pidx, cur, nextEv, loopVars, gdeps, tdeps,
                   ruleVars, trajVars, valueVars>>

\* A mutator of Trajectory t (modify, setTransform, setMotion, transformTo,
\* stop, translate, setPos, impulse, setVel) at top level.
MutateTrajectory(t) ==
    /\ TopLevel
    /\ MutateFrom(World, tdeps[t])
    /\ Forget
    /\ UNCHANGED <<time, cycle, pc, pidx, cur, nextEv, loopVars>>

\* geometry.modify(callback) on Geometry g at top level.
ModifyGeometry(g) ==
    /\ TopLevel
    /\ MutateFrom(World, gdeps[g])
    /\ Forget
    /\ UNCHANGED <<time, cycle, pc, pidx, cur, nextEv, loopVars>>

\* clock.addPreprocess(() => a mutator of Trajectory t) at top level.
AddMutation(t) ==
    /\ TopLevel
    /\ Cardinality({k \in 1..Len(preprocesses) : preprocesses[k].kind = "mutate"})
           < MaxPre
    /\ preprocesses' = Append(preprocesses,
                              [kind |-> "mutate", arg |-> t, addCycle |-> 0,
                               inStep |-> FALSE])
    /\ Forget
    /\ UNCHANGED <<time, cycle, events, ev, pc, pidx, cur, nextEv, loopVars,
                   obj, physRest>>

\* rule.disable() at top level, on a rule that is enabled.
RuleDisable(r) ==
    /\ TopLevel
    /\ RuleOn(r)
    /\ RuleDisableFrom(World, r)
    /\ Forget
    /\ UNCHANGED <<time, cycle, pc, pidx, cur, nextEv, loopVars>>

\* rule.enable() at top level, on a rule that is disabled.
RuleEnable(r) ==
    /\ TopLevel
    /\ ~RuleOn(r)
    /\ RuleEnableFrom(World, r)
    /\ Forget
    /\ UNCHANGED <<time, cycle, pc, pidx, cur, nextEv, loopVars>>

\* clock.addPreprocess(() => rule.disable()) at top level.
AddRuleDisable(r) ==
    /\ TopLevel
    /\ Cardinality({k \in 1..Len(preprocesses) : preprocesses[k].kind = "ruleoff"})
           < MaxPre
    /\ preprocesses' = Append(preprocesses,
                              [kind |-> "ruleoff", arg |-> r, addCycle |-> 0,
                               inStep |-> FALSE])
    /\ Forget
    /\ UNCHANGED <<time, cycle, events, ev, pc, pidx, cur, nextEv, loopVars,
                   obj, physRest>>

\* ------------------------------------------------------- specifications
\* The clock with plain and self-rescheduling events.
NextClock ==
    \/ \E t \in Times, k \in {"plain", "self"} : Schedule(t, k)
    \/ \E T \in Times : RunTo(T)
    \/ BeginCycle
    \/ SelectEvent
    \/ Callback

Spec == Init /\ [][NextClock]_vars

\* The clock with events that are cancelled and made valid again, at top
\* level and from the callbacks of other events.
NextCancel ==
    \/ \E t \in Times, k \in {"plain", "cancel"} : Schedule(t, k)
    \/ \E e \in EventIds, b \in BOOLEAN : SetValid(e, b)
    \/ \E T \in Times : RunTo(T)
    \/ BeginCycle
    \/ SelectEvent
    \/ Callback

SpecCancel == Init /\ [][NextCancel]_vars

\* A call of a method of the Trajectory at top level; the Trajectory has no
\* dependant, so its recalculateCollisions queues nothing.
TrajCall(op, arg, motion, dt, new) ==
    /\ TopLevel
    /\ trj' = new
    /\ tlast' = [op |-> op, arg |-> arg, motion |-> motion, dt |-> dt, at |-> time,
                 before |-> getTransform(trj, time), motionBefore |-> getMotion(trj)]
    /\ UNCHANGED <<time, cycle, events, preprocesses, ev, pc, target, i, pidx, cur,
                   result, log, prelog, start, cycle0, nextEv, loopVars,
                   obj, gdeps, tdeps, members, ruleVars, valueVars, dirty>>

SetTransform(base) ==
    TrajCall("setTransform", base, Zero, 0, setTransform(trj, base, Zero, FALSE))
SetTransformMotion(base, motion) ==
    TrajCall("setTransform2", base, motion, 0, setTransform(trj, base, motion, TRUE))
SetMotion(motion) ==
    TrajCall("setMotion", Zero, motion, 0, setMotion(trj, motion, time))
TransformTo(transform, dt) ==
    /\ Divisible(Sub(transform, getTransform(trj, time)), dt)
    /\ TrajCall("transformTo", transform, Zero, dt, transformTo(trj, transform, dt, time))
Stop == TrajCall("stop", Zero, Zero, 0, stop(trj, time))
Translate(v) == TrajCall("translate", SetP(Zero, v), Zero, 0, translate(trj, v, time))
SetPos(v) == TrajCall("setPos", SetP(Zero, v), Zero, 0, setPos(trj, v, time))
Impulse(v) == TrajCall("impulse", Zero, SetP(Zero, v), 0, impulse(trj, v, time))
SetVel(v) == TrajCall("setVel", Zero, SetP(Zero, v), 0, setVel(trj, v, time))

\* trajectory.setMotion(motion) on the trajectory of objA (k = 1) or of objB
\* (k = 2), before any collision of the two is resolved.
PairSetMotion(k, motion) ==
    /\ pc = "idle"
    /\ cycle = 0
    /\ rlast.op = "none"
    /\ trjAB[k].motion # motion
    /\ trjAB' = [trjAB EXCEPT ![k] = setMotion(@, motion, time)]
    /\ UNCHANGED <<time, cycle, events, preprocesses, ev, pc, target, i, pidx, cur,
                   result, log, prelog, start, cycle0, nextEv, loopVars,
                   obj, gdeps, tdeps, members, ruleVars, trj, tlast, rlast, buildVars,
                   solveVars, dirty, ops>>

\* The callback of a rule calls collision.resolve(...) on a collision that
\* verifyCollision accepted: the contact points pa and pb approach each other
\* across the edge.  The program resolves one collision.
Resolve(tangent, pa, pb, additionalVel, restitutionCoefficient, weightA, weightB) ==
    LET c == [tangent |-> tangent, relVel |-> contactRelVel(trjAB, pa, pb)]
        v == perpVel(c, additionalVel)
        k == 1 + restitutionCoefficient
    IN  /\ TopLevel
        /\ rlast.op = "none"
        /\ cross(c.tangent, c.relVel) > 0
        /\ weightA + weightB > 0
        /\ RatioExact(v, k * weightB, weightA + weightB)
        /\ RatioExact(v, k * weightA, weightA + weightB)
        /\ trjAB' = resolve(trjAB, c, additionalVel, restitutionCoefficient,
                            weightA, weightB, time)
        /\ rlast' = [op |-> "resolve", tangent |-> tangent, relVel |-> c.relVel,
                     pa |-> pa, pb |-> pb, additionalVel |-> additionalVel,
                     restitutionCoefficient |-> restitutionCoefficient,
                     weightA |-> weightA, weightB |-> weightB,
                     motionA |-> trjAB[1].motion, motionB |-> trjAB[2].motion]
        /\ UNCHANGED <<time, cycle, events, preprocesses, ev, pc, target, i, pidx,
                       cur, result, log, prelog, start, cycle0, nextEv, loopVars,
                       obj, gdeps, tdeps, members, ruleVars, trj, tlast, buildVars,
                       solveVars, dirty>>

\* A call of a method of the GeometryBuilder at top level.
BuildCall(op, arg, new, ret) ==
    /\ pc = "idle"
    /\ glast.calls < MaxCalls
    /\ gb' = new
    /\ glast' = [op |-> op, arg |-> arg, before |-> gb, ret |-> ret,
                 calls |-> glast.calls + 1]
    /\ UNCHANGED <<time, cycle, events, preprocesses, ev, pc, target, i, pidx, cur,
                   result, log, prelog, start, cycle0, nextEv, loopVars,
                   obj, gdeps, tdeps, members, ruleVars, trajVars, trjAB, rlast,
                   solveVars, dirty, ops>>

BuilderTo(vertices) == BuildCall("to", vertices, to(gb, vertices), "this")
BuilderBreak == BuildCall("break", <<>>, break(gb), "this")
BuilderClose == BuildCall("close", <<>>, close(gb), closeReturn(gb))
BuilderPolygon(vertices) ==
    BuildCall("polygon", vertices, polygon(gb, vertices), "this")

\* A GeometryBuilder given vertices, breaks, closes and polygons.
NextBuild ==
    \/ \E vertices \in Paths : BuilderTo(vertices)
    \/ BuilderBreak
    \/ BuilderClose
    \/ \E vertices \in Polygons : BuilderPolygon(vertices)

SpecBuild == Init /\ [][NextBuild]_vars

\* vertexEdge called on two objects with the given trajectories, the vertex
\* object anchored at baseTime, at the time now of the clock.
VertexEdge(eMotion, vBase, vMotion, baseTime, edge, vertex, invert, now, toleranceProfile) ==
    LET eTr == [base |-> Identity, motion |-> eMotion, time |-> 0]
        vTr == [base |-> vBase, motion |-> vMotion, time |-> baseTime]
    IN  /\ pc = "idle"
        /\ vlast.op = "none"
        /\ baseTime <= now
        /\ Representable(eTr, vTr, edge, vertex, now)
        /\ vlast' = [op |-> "vertexEdge", eTr |-> eTr, vTr |-> vTr, edge |-> edge,
                     vertex |-> vertex, invert |-> invert, now |-> now,
                     toleranceProfile |-> toleranceProfile,
                     collisions |-> vertexEdge(eTr, vTr, edge, vertex, invert, now,
                                               toleranceProfile)]
        /\ UNCHANGED <<time, cycle, events, preprocesses, ev, pc, target, i, pidx,
                       cur, result, log, prelog, start, cycle0, nextEv, loopVars,
                       obj, gdeps, tdeps, members, ruleVars, trajVars, trjAB, rlast,
                       buildVars, clast, hp, dirty, ops>>

\* The exact solver given a vertex and an edge, once.
NextSolve ==
    \E eMotion \in EdgeMotions, vBase \in VertexBases, vMotion \in VertexMotions,
       baseTime \in 0..1, edge \in SolveEdges, vertex \in SolveVertices,
       invert \in BOOLEAN, now \in Times, toleranceProfile \in ToleranceProfiles :
        VertexEdge(eMotion, vBase, vMotion, baseTime, edge, vertex, invert, now,
                   toleranceProfile)

SpecSolve == Init /\ [][NextSolve]_vars

\* generateCollisionCandidates called on two objects, or on one object
\* twice, at the time now of the clock.
Generate(a, b, same, now) ==
    /\ pc = "idle"
    /\ clast.op = "none"
    /\ same => a = b
    /\ WholeBounds(a, b, now)
    /\ clast' = [op |-> "generate", a |-> a, b |-> b, same |-> same, now |-> now,
                 result |-> sweptCandidate(a, b, same, now)]
    /\ UNCHANGED <<time, cycle, events, preprocesses, ev, pc, target, i, pidx,
                   cur, result, log, prelog, start, cycle0, nextEv, loopVars,
                   obj, gdeps, tdeps, members, ruleVars, trajVars, trjAB, rlast,
                   buildVars, vlast, hp, dirty, ops>>

\* The candidate generation given two objects, once.
NextGenerate ==
    \E a \in BoxObjects, b \in BoxObjects, same \in BOOLEAN, now \in Times :
        Generate(a, b, same, now)

SpecGenerate == Init /\ [][NextGenerate]_vars

\* heap.push(x)
PushItem(x) ==
    /\ pc = "idle"
    /\ hp.pushed < MaxPushes
    /\ hp' = [values |-> HeapPush(itemKey, hp.values, x),
              pushed |-> hp.pushed + 1, popped |-> hp.popped,
              op |-> "push", before |-> hp.values, returned |-> 0]
    /\ UNCHANGED <<time, cycle, events, preprocesses, ev, pc, target, i, pidx,
                   cur, result, log, prelog, start, cycle0, nextEv, loopVars,
                   obj, gdeps, tdeps, members, ruleVars, trajVars, trjAB, rlast,
                   buildVars, vlast, clast, dirty, ops>>

\* heap.pop(), on an empty heap too
PopItem ==
    /\ pc = "idle"
    /\ hp' = [values |-> HeapPop(itemKey, hp.values),
              pushed |-> hp.pushed,
              popped |-> hp.popped + (IF popReturn(hp.values) = 0 THEN 0 ELSE 1),
              op |-> "pop", before |-> hp.values,
              returned |-> popReturn(hp.values)]
    /\ UNCHANGED <<time, cycle, events, preprocesses, ev, pc, target, i, pidx,
                   cur, result, log, prelog, start, cycle0, nextEv, loopVars,
                   obj, gdeps, tdeps, members, ruleVars, trajVars, trjAB, rlast,
                   buildVars, vlast, clast, dirty, ops>>

\* heap.peek()
PeekItem ==
    /\ pc = "idle"
    /\ hp' = [hp EXCEPT !.op = "peek", !.before = hp.values,
                        !.returned = HeapPeek(hp.values)]
    /\ UNCHANGED <<time, cycle, events, preprocesses, ev, pc, target, i, pidx,
                   cur, result, log, prelog, start, cycle0, nextEv, loopVars,
                   obj, gdeps, tdeps, members, ruleVars, trajVars, trjAB, rlast,
                   buildVars, vlast, clast, dirty, ops>>

\* Pushes, pops and peeks on one heap, in any order.
NextHeap ==
    \/ \E x \in 1..HeapItems : PushItem(x)
    \/ PopItem
    \/ PeekItem

SpecHeap == Init /\ [][NextHeap]_vars

\* Two trajectories given motions, and collisions of the two resolved.
NextResolve ==
    \/ \E k \in 1..2, motion \in Motions : PairSetMotion(k, motion)
    \/ \E tangent \in Tangents, pa \in Vecs, pb \in Vecs,
          additionalVel \in AdditionalVels, restitutionCoefficient \in Restitutions,
          weightA \in Weights, weightB \in Weights :
            Resolve(tangent, pa, pb, additionalVel, restitutionCoefficient,
                    weightA, weightB)
    \/ \E T \in Times : RunTo(T)
    \/ BeginCycle
    \/ SelectEvent

SpecResolve == Init /\ [][NextResolve]_vars

\* A Trajectory on a clock that is run with no event scheduled.
NextTraj ==
    \/ \E base \in Xforms : SetTransform(base)
    \/ \E base \in Xforms, motion \in Motions : SetTransformMotion(base, motion)
    \/ \E motion \in Motions : SetMotion(motion)
    \/ \E transform \in Xforms, dt \in Durations : TransformTo(transform, dt)
    \/ Stop
    \/ \E v \in Vecs : Translate(v)
    \/ \E v \in Vecs : SetPos(v)
    \/ \E v \in Vecs : Impulse(v)
    \/ \E v \in Vecs : SetVel(v)
    \/ \E T \in Times : RunTo(T)
    \/ BeginCycle
    \/ SelectEvent

SpecTraj == Init /\ [][NextTraj]_vars

\* Objects whose rules are disabled and enabled, at top level and by a
\* preprocess.
NextRule ==
    \/ \E r \in Rules : RuleDisable(r)
    \/ \E r \in Rules : RuleEnable(r)
    \/ \E r \in Rules : AddRuleDisable(r)
    \/ \E T \in Times : RunTo(T)
    \/ BeginCycle
    \/ RunPreprocess
    \/ SelectEvent
    \/ Callback

SpecRule == InitPhys /\ [][NextRule]_vars

\* The clock with callbacks that call advance and runTo on the clock that
\* invoked them, and callbacks that schedule an event in the past.
NextNest ==
    \/ \E t \in Times, k \in {"plain", "past", "adv", "runto"} : Schedule(t, k)
    \/ \E T \in Times : RunTo(T)
    \/ BeginCycle
    \/ SelectEvent
    \/ Callback
    \/ NestedCallback
    \/ Advance
    \/ AdvanceSelect
    \/ AdvanceCallback

SpecNest == Init /\ [][NextNest]_vars

\* The clock run by runTo and by advance, with preprocesses added at top
\* level, by event callbacks and by other preprocesses.
NextAdvance ==
    \/ \E t \in Times : Schedule(t, "addpre")
    \/ \E k \in PreKinds : AddPreprocess(k)
    \/ \E T \in Times : RunTo(T)
    \/ BeginCycle
    \/ RunPreprocess
    \/ SelectEvent
    \/ Callback
    \/ Advance
    \/ AdvanceSelect
    \/ AdvanceCallback

SpecAdvance == Init /\ [][NextAdvance]_vars

\* The clock stepped by advance only, with events that are cancelled and
\* restored at top level and preprocesses added at top level and by events.
NextStep ==
    \/ \E t \in Times, k \in {"plain", "addpre"} : Schedule(t, k)
    \/ \E e \in EventIds, b \in BOOLEAN : SetValid(e, b)
    \/ \E k \in PreKinds : AddPreprocess(k)
    \/ Advance
    \/ RunPreprocess
    \/ AdvanceSelect
    \/ AdvanceCallback

SpecStep == Init /\ [][NextStep]_vars

\* The clock with preprocesses, added at top level, by event callbacks and
\* by other preprocesses.
NextPre ==
    \/ \E t \in Times : Schedule(t, "addpre")
    \/ \E k \in PreKinds : AddPreprocess(k)
    \/ \E T \in Times : RunTo(T)
    \/ BeginCycle
    \/ RunPreprocess
    \/ SelectEvent
    \/ Callback

SpecPre == Init /\ [][NextPre]_vars

\* The clock with events and preprocesses, among them a preprocess that
\* adds itself again each time it runs.
NextAgain ==
    \/ \E t \in Times, k \in {"plain", "self"} : Schedule(t, k)
    \/ \E k \in PreKinds \cup {"again"} : AddPreprocess(k)
    \/ \E T \in Times : RunTo(T)
    \/ BeginCycle
    \/ RunPreprocess
    \/ SelectEvent
    \/ Callback

\* A runTo call that was entered goes on: each step of it is taken when it
\* can be, callbacks and preprocesses returning.
SpecAgain ==
    /\ Init
    /\ [][NextAgain]_vars
    /\ WF_vars(BeginCycle) /\ WF_vars(RunPreprocess)
    /\ WF_vars(SelectEvent) /\ WF_vars(Callback)

\* The same without the preprocess that adds itself.
NextPlainPre ==
    \/ \E t \in Times, k \in {"plain", "self"} : Schedule(t, k)
    \/ \E k \in PreKinds : AddPreprocess(k)
    \/ \E T \in Times : RunTo(T)
    \/ BeginCycle
    \/ RunPreprocess
    \/ SelectEvent
    \/ Callback

SpecPlainPre ==
    /\ Init
    /\ [][NextPlainPre]_vars
    /\ WF_vars(BeginCycle) /\ WF_vars(RunPreprocess)
    /\ WF_vars(SelectEvent) /\ WF_vars(Callback)

\* The clock with loops started by scheduleLoop and stopped by cancelLoop.
NextLoop ==
    \/ \E t \in Times, d \in Delays : ScheduleLoop(t, d)
    \/ \E h \in 0..MaxLoops : CancelLoop(h)
    \/ \E T \in Times : RunTo(T)
    \/ BeginCycle
    \/ SelectEvent
    \/ Callback

SpecLoop == Init /\ [][NextLoop]_vars

\* The clock with PhysicsObjects: their collision events and self-wake
\* events, their recalculation preprocesses, and a user that mutates the
\* trajectories, the geometries and the groups of the objects at top level,
\* in preprocesses and in the callbacks of the rules.
NextPhys ==
    \/ \E o \in Objs, g \in Groups : AddCollision(o, g)
    \/ \E o \in Objs, g \in Groups : DeleteCollision(o, g)
    \/ \E t \in Trajs : MutateTrajectory(t)
    \/ \E g \in Geos : ModifyGeometry(g)
    \/ \E t \in Trajs : AddMutation(t)
    \/ \E T \in Times : RunTo(T)
    \/ BeginCycle
    \/ RunPreprocess
    \/ SelectEvent
    \/ Callback

SpecPhys == InitPhys /\ [][NextPhys]_vars

\* The clock with three PhysicsObjects, the second in the group the rule
\* joins to the group of the other two, and trajectories mutated at top
\* level.
NextTrio ==
    \/ \E t \in Trio : MutateTrajectory(t)
    \/ \E T \in Times : RunTo(T)
    \/ BeginCycle
    \/ RunPreprocess
    \/ SelectEvent
    \/ Callback

SpecTrio == InitTrio /\ [][NextTrio]_vars

\* The three objects under a recalculating and a non-recalculating rule.
SpecMixed == InitMixed /\ [][NextTrio]_vars

\* The clock with PhysicsObjects that are disabled and enabled, at top level
\* and in the callbacks of the rules, and are given groups, geometries and
\* trajectories while they are disabled or enabled.
NextDisable ==
    \/ \E o \in Objs : Disable(o)
    \/ \E o \in Objs : Enable(o)
    \/ \E o \in Objs, g \in Geos : SetGeometry(o, g)
    \/ \E o \in Objs, t \in Trajs : SetTrajectory(o, t)
    \/ \E o \in Objs, g \in Groups : AddCollision(o, g)
    \/ \E T \in Times : RunTo(T)
    \/ BeginCycle
    \/ RunPreprocess
    \/ SelectEvent
    \/ Callback

SpecDisable == InitPhys /\ [][NextDisable]_vars

\* ------------------------------------------------------------------ claims
InLog(e) == \E k \in 1..Len(log) : log[k].id = e
Ended == result \in {"returned", "cycle-limit"}

\* C1 as stated: when runTo(T) returns, every valid event that was scheduled
\* at a time <= T has been invoked, also the events at time T itself.
C1_RunsEventsUpToTarget ==
    result = "returned" =>
        \A s \in start : (s.valid /\ s.time <= target) => InLog(s.id)

\* C1 amended: when runTo(T) returns, every valid event that was scheduled at
\* a time < T has been invoked, the callbacks were invoked in ascending order
\* of time, and each observed clock.time equal to the time of its event.
C1_RunsEventsBeforeTarget ==
    result = "returned" =>
        /\ \A s \in start : (s.valid /\ s.time < target) => InLog(s.id)
        /\ \A k \in 1..Len(log) : log[k].now = log[k].etime
        /\ \A k, l \in 1..Len(log) : k < l => log[k].etime <= log[l].etime

\* A runTo that returned after invoking two events of different times.
C1_Witness ==
    /\ result = "returned"
    /\ Len(log) >= 2
    /\ log[1].etime < log[2].etime
    /\ \E s \in start : s.valid /\ s.time < target

\* C2: runTo(target) invokes only events of a time strictly less than
\* target; a valid event scheduled at exactly target is still in the heap,
\* valid, when runTo(target) returns.
C2_OnlyBeforeTarget ==
    result = "returned" =>
        /\ \A k \in 1..Len(log) : log[k].etime < target
        /\ \A s \in start : (s.valid /\ s.time = target) =>
               /\ ~InLog(s.id)
               /\ InHeap(s.id)
               /\ ev[s.id].valid
               /\ ev[s.id].time = target

\* A runTo(target) that returned, invoked an event, and left one of time
\* target in the heap.
C2_Witness ==
    /\ result = "returned"
    /\ Len(log) > 0
    /\ \E s \in start : s.valid /\ s.time = target /\ InHeap(s.id)

\* runTo is about to pop an event.
PopStep == pc = "pre" /\ ~ForOfHasNext(preprocesses, pidx) /\ ~StopAt(events, target)

\* C3: the callback of an event is invoked if and only if the event is valid
\* when the clock pops it; popping an invalid event leaves clock.time and
\* every other event as they are; an event made valid again is invoked.
C3_ValidDecides ==
    [][/\ PopStep =>
            LET e == HeapPeek(events)
            IN  IF ev[e].valid
                THEN pc' = "callback" /\ cur' = e /\ time' = ev[e].time
                ELSE /\ pc' = "loop"
                     /\ time' = time
                     /\ Range(events') = Range(events) \ {e}
                     /\ \A f \in EventIds \ {e} : ev'[f] = ev[f]
       /\ (pc # "callback" /\ pc' = "callback") =>
            PopStep /\ ev[HeapPeek(events)].valid
       /\ (log' # log /\ log' # <<>>) =>
            /\ pc = "callback"
            /\ ev[cur].valid \/ ev[cur].kind = "cancel"
            /\ log' = Append(log, [id |-> cur, etime |-> ev[cur].time,
                                   now |-> time, kind |-> ev[cur].kind,
                                   arg |-> ev[cur].arg])
      ]_vars

\* runTo has popped and skipped an invalid event, and is invoking the
\* callback of a valid one of a later time.
C3_Witness ==
    /\ pc = "callback"
    /\ \E s \in start : ~s.valid /\ s.time < time /\ ~InHeap(s.id)

\* C4: of the valid events of one time, the clock invokes first the one
\* that was pushed first (event ids are given in the order of creation, and
\* a plain event is pushed once, when it is created).
C4_InsertionOrder ==
    (pc = "callback" /\ ev[cur].kind = "plain") =>
        \A f \in Range(events) :
            (ev[f].kind = "plain" /\ ev[f].valid /\ ev[f].time = ev[cur].time)
                => cur < f

\* C5: a preprocess added while the preprocess step of cycle k runs is not
\* invoked in that step (in which clock.cycle is k), but in cycle k + 1.
C5_DeferredToNextCycle ==
    prelog.inStep => prelog.runCycle > prelog.addCycle

\* C6: when the trajectory, the geometry or the groups of an enabled object
\* were mutated, at top level, in an event callback or in a preprocess,
\* recalculateCollisions has run for the object before the clock invokes the
\* callback of the next event.
C6_RecalculatedBeforeNextEvent ==
    pc = "callback" => dirty = {}

\* C7: no callback of a collision rule is invoked with a collision whose
\* objA or objB is disabled.
C7_DisabledNeverCollides ==
    (pc = "callback" /\ ev[cur].kind = "collision") =>
        /\ ~obj[ev[cur].a].disabled
        /\ ~obj[ev[cur].b].disabled

\* C8: once cancelLoop was given the value scheduleLoop returned for a loop,
\* the callback of that loop is not invoked again and its closure pushes no
\* successor event.
C8_CancelStopsLoop ==
    [][(pc = "callback" /\ ev[cur].kind = "loop" /\ ev[cur].arg \in cancelled) =>
           (log' = log /\ events' = events)
      ]_vars

\* C9: one runTo call executes at most runToCycleLimit cycles; it throws
\* only when that many cycles were executed, and it never returns once an
\* event that reschedules itself at its own time has been invoked.
C9_CycleLimit ==
    (pc # "idle" \/ Ended) =>
        /\ cycle - cycle0 <= runToCycleLimit
        /\ result = "cycle-limit" => cycle - cycle0 = runToCycleLimit
        /\ result = "returned" => \A k \in 1..Len(log) : log[k].kind # "self"

\* runTo threw cycle-limit-exceeded on an event that reschedules itself at a
\* time before the target.
C9_Witness ==
    /\ result = "cycle-limit"
    /\ \E k \in 1..Len(log) : log[k].kind = "self" /\ log[k].etime < target

\* C10: runTo(T) with T < clock.time throws invalid-time; time, cycle, the
\* heap, the events and the pending preprocesses are as before the call,
\* and no preprocess and no callback is invoked.
C10_InvalidTimeUnchanged ==
    [][\A T \in Times :
          (T < time /\ RunTo(T)) =>
              /\ result' = "invalid-time"
              /\ pc' = "idle"
              /\ UNCHANGED <<time, cycle, events, preprocesses, ev, log, prelog>>
      ]_vars

\* runTo was refused while events and preprocesses were pending.
C10_Witness ==
    /\ result = "invalid-time"
    /\ Len(events) > 0
    /\ Len(preprocesses) > 0
    /\ time > 0

\* C11: when runTo(T) returns normally, the time of the clock is T, also
\* after callbacks that called advance or runTo on the clock themselves.
C11_TimeIsTarget == result = "returned" => time = target

\* runTo returned at a target later than the last event it ran, after a
\* callback that called back into the clock.
C11_Witness ==
    /\ result = "returned"
    /\ time = target
    /\ \E k \in 1..Len(log) : log[k].kind \in NestKinds /\ log[k].etime < target

\* C12: the time of a clock never decreases, whatever the callbacks do.
C12_TimeNeverDecreases == [][time' >= time]_vars

\* C13: whenever runTo or advance invokes an event callback, every pending
\* preprocess has been run and the list of pending preprocesses is empty.
C13_NoPendingAtCallback ==
    [][pc' \in {"callback", "acallback"} /\ pc \notin {"callback", "acallback"} =>
          /\ \A k \in 1..Len(preprocesses) : k < pidx
          /\ preprocesses' = <<>>
      ]_vars

\* advance invokes a callback right after running a preprocess that an
\* earlier callback had added.
C13_Witness ==
    /\ pc = "acallback"
    /\ preprocesses = <<>>
    /\ prelog.kind = "plain"
    /\ prelog.addCycle > 0
    /\ prelog.runCycle = cycle - 1

\* C14: at every time of the clock, posOf(v) is getTransform() applied to v.
C14_PosOfFollowsTransform ==
    \A v \in Vecs : posOf(trj, v) = applyTransform(v, getTransform(trj, time))

\* C15: right after setTransform(B), with or without a motion, getTransform()
\* is B; without one the motion is as before, with one getMotion() is it.
C15_SetTransformIsAbsolute ==
    (tlast.op \in {"setTransform", "setTransform2"} /\ time = tlast.at) =>
        /\ getTransform(trj, time) = tlast.arg
        /\ tlast.op = "setTransform" => getMotion(trj) = tlast.motionBefore
        /\ tlast.op = "setTransform2" => getMotion(trj) = tlast.motion

\* C16: transformTo(T, dt) called at time t0 makes getTransform() equal to T
\* at time t0 + dt, when no method of the trajectory is called in between.
C16_TransformToArrives ==
    (tlast.op = "transformTo" /\ time = tlast.at + tlast.dt) =>
        getTransform(trj, time) = tlast.arg

\* transformTo was called after the clock had moved a drifting trajectory
\* away from its anchor, and the clock then reached the time of arrival.
C16_Witness ==
    /\ tlast.op = "transformTo"
    /\ time = tlast.at + tlast.dt
    /\ tlast.at > 0
    /\ tlast.before # tlast.arg
    /\ tlast.motionBefore # Zero
    /\ getTransform(trj, time) = tlast.arg

\* C17: after setMotion, impulse, setVel or stop at time t the anchor of the
\* trajectory is t and getTransform() at t is what it was before the call.
C17_ModifyNormalizesFirst ==
    tlast.op \in {"setMotion", "impulse", "setVel", "stop"} =>
        /\ trj.time = tlast.at
        /\ getTransform(trj, tlast.at) = tlast.before

\* A mutator ran on a trajectory that had drifted since its anchor.
C17_Witness ==
    /\ tlast.op \in {"setMotion", "impulse", "setVel", "stop"}
    /\ tlast.at > 0
    /\ tlast.motionBefore # Zero
    /\ tlast.before # Identity
    /\ trj.motion # tlast.motionBefore
    /\ trj.time = tlast.at

\* The step of the for-of loop that runs the recalculation closure of X.
RecalculationOf(X) ==
    /\ pc \in {"pre", "apre"}
    /\ ForOfHasNext(preprocesses, pidx)
    /\ preprocesses[pidx].kind = "recalc"
    /\ preprocesses[pidx].arg = X
    /\ pidx' = pidx + 1

\* The events scheduled for X: collisions X takes part in and its self-wakes.
EventsOf(X) ==
    {e \in Range(events) : /\ ev[e].kind \in {"collision", "wake"}
                           /\ (ev[e].a = X \/ ev[e].b = X)}

C19_SubscribedIffEnabled ==
    \A o \in DOMAIN obj :
        IF obj[o].disabled
        THEN /\ \A g \in Geos : o \notin Range(gdeps[g])
             /\ \A t \in Trajs : o \notin Range(tdeps[t])
             /\ \A g \in Groups : o \notin Range(members[g])
        ELSE /\ o \in Range(gdeps[obj[o].geometry])
             /\ o \in Range(tdeps[obj[o].trajectory])
             /\ \A g \in Range(obj[o].collisionGroups) : o \in Range(members[g])

\* C20: between disable() and enable() of a rule no callback of the rule is
\* invoked: a collision event is run only while its rule is in the sets of
\* its two groups.
C20_DisabledRuleNeverFires ==
    (pc \in {"callback", "acallback"} /\ ev[cur].kind = "collision") =>
        RuleOn(ev[cur].arg)

\* The velocities of the contact points of a and b and their difference, as
\* the trajectories have them now.
RelVelNow == contactRelVel(trjAB, rlast.pa, rlast.pb)

\* C21: resolve with weightA = 0 and weightB > 0 leaves the motion of
\* object A as it was, and with weightB = 0 and weightA > 0 that of object B.
C21_ZeroWeightPinsItself ==
    rlast.op = "resolve" =>
        /\ (rlast.weightA = 0 /\ rlast.weightB > 0) => trjAB[1].motion = rlast.motionA
        /\ (rlast.weightB = 0 /\ rlast.weightA > 0) => trjAB[2].motion = rlast.motionB

\* C21, amended: resolve with weightA = 0 and weightB > 0 leaves the motion
\* of object B as it was and gives object A the whole impulse, and with
\* weightB = 0 and weightA > 0 it is object A that keeps its motion.
C21_ZeroWeightPinsTheOther ==
    rlast.op = "resolve" =>
        LET whole == VScale(perpVel(rlast, rlast.additionalVel),
                            1 + rlast.restitutionCoefficient)
        IN  /\ (rlast.weightA = 0 /\ rlast.weightB > 0) =>
                  /\ trjAB[2].motion = rlast.motionB
                  /\ trjAB[1].motion = AddP(rlast.motionA, whole)
            /\ (rlast.weightB = 0 /\ rlast.weightA > 0) =>
                  /\ trjAB[1].motion = rlast.motionA
                  /\ trjAB[2].motion = AddP(rlast.motionB, VScale(whole, 0 - 1))

\* A collision was resolved with weightA = 0 and weightB > 0 and the motion
\* of object A changed.
C21_Witness ==
    /\ rlast.op = "resolve"
    /\ rlast.weightA = 0
    /\ rlast.weightB > 0
    /\ trjAB[1].motion # rlast.motionA
    /\ rlast.motionB # Zero

\* C22: resolve(0, 1, w, w) with w > 0 negates the component of the relative
\* velocity of the contact points along the normal and keeps the component
\* along the tangent.
C22_ElasticReflection ==
    (/\ rlast.op = "resolve"
     /\ rlast.additionalVel = 0
     /\ rlast.restitutionCoefficient = 1
     /\ rlast.weightA = rlast.weightB) =>
        /\ dot(RelVelNow, perp(rlast.tangent))
              = 0 - dot(rlast.relVel, perp(rlast.tangent))
        /\ dot(RelVelNow, rlast.tangent) = dot(rlast.relVel, rlast.tangent)

\* An elastic collision with equal weights was resolved between contact
\* points that also slid along the edge.
C22_Witness ==
    /\ rlast.op = "resolve"
    /\ rlast.additionalVel = 0
    /\ rlast.restitutionCoefficient = 1
    /\ rlast.weightA = rlast.weightB
    /\ dot(rlast.relVel, rlast.tangent) # 0
    /\ dot(RelVelNow, perp(rlast.tangent)) # 0
    /\ trjAB[1].motion # rlast.motionA
    /\ trjAB[2].motion # rlast.motionB


\* The places of the heap that hold an event of the loop L.
LoopPending(L) ==
    {j \in 1..Len(events) : ev[events[j]].kind = "loop" /\ ev[events[j]].arg = L}

\* The first iteration of a loop: scheduleLoop(clock, t, d, cb) at a time
\* t >= clock.time leaves one event of the new loop, at t.
LoopStarts(t, d) ==
    (ScheduleLoop(t, d) /\ t >= time) =>
        \E L \in {id}, j \in 1..Len(events') :
            /\ LoopPending(L)' = {j}
            /\ ev'[events'[j]].time = t
            /\ ev'[events'[j]].delay = d

\* One firing of a loop that was not cancelled: cb is invoked once, at the
\* time of the event, and one successor is pushed at that time + delay.
LoopFires ==
    (pc = "callback" /\ ev[cur].kind = "loop" /\ ev[cur].arg \in loops) =>
        /\ time = ev[cur].time
        /\ Len(log') = Len(log) + 1
        /\ log'[Len(log')].kind = "loop"
        /\ log'[Len(log')].arg = ev[cur].arg
        /\ log'[Len(log')].now = ev[cur].time
        /\ \E L \in {ev[cur].arg}, j \in 1..Len(events') :
               /\ LoopPending(L)' = {j}
               /\ ev'[events'[j]].time = ev[cur].time + ev[cur].delay
               /\ ev'[events'[j]].delay = ev[cur].delay

\* C23: a loop started at a time >= clock.time with a delay > 0 has one
\* pending event at its start; each firing invokes cb once at the time of
\* the event and pushes exactly one successor at that time + delay; at every
\* moment at most one pending event belongs to a loop, and a runTo that
\* returns leaves no event of a running loop before the time it returns at.
C23_LoopIsPeriodic ==
    [][/\ \A t \in Times, d \in Delays : LoopStarts(t, d)
       /\ LoopFires
       /\ \A L \in 0..MaxLoops : Cardinality(LoopPending(L)') <= 1
       /\ result' = "returned" =>
              \A j \in 1..Len(events') :
                  (ev'[events'[j]].kind = "loop" /\ ev'[events'[j]].arg \in loops')
                      => ev'[events'[j]].time >= time'
      ]_vars

\* A loop fired twice, delay apart, and its third event is pending.
C23_Witness ==
    /\ pc = "loop"
    /\ \E k \in 1..Len(log), m \in 1..Len(log), j \in 1..Len(events) :
           /\ k < m
           /\ log[k].kind = "loop" /\ log[m].kind = "loop"
           /\ log[k].arg = log[m].arg
           /\ log[k].arg \in loops
           /\ ev[events[j]].kind = "loop" /\ ev[events[j]].arg = log[k].arg
           /\ log[m].now = log[k].now + ev[events[j]].delay
           /\ ev[events[j]].time = log[m].now + ev[events[j]].delay


\* The valid events of the heap as the call of advance found it.
ValidAtCall == {s \in start : s.valid}

\* advance picks its event: the preprocesses have run, the event is a valid
\* one of the earliest time among the valid ones, the time of the clock
\* becomes its time, the invalid events before it are gone and the other
\* valid ones are still in the heap.
AdvancePicks ==
    (pc = "apre" /\ pc' = "acallback") =>
        /\ \A k \in 1..Len(preprocesses) : k < pidx
        /\ preprocesses' = <<>>
        /\ \E s \in ValidAtCall :
               /\ s.id = cur'
               /\ \A o \in ValidAtCall : s.time <= o.time
               /\ time' = s.time
               /\ \A o \in start :
                      /\ (~o.valid /\ o.time < s.time) =>
                             (o.id \notin Range(events') /\ ev'[o.id] = NoEvent)
                      /\ (o.valid /\ o.id # s.id) => o.id \in Range(events')
               /\ s.id \notin Range(events')

\* advance invokes the callback of the event it picked, and no other, and
\* returns true at the time of that event.
AdvanceRuns ==
    pc = "acallback" =>
        /\ result' = "true"
        /\ pc' = "idle"
        /\ time' = time
        /\ start' = start
        /\ \E L \in {cur} : /\ Len(log') = 1
                            /\ log'[1].id = L
                            /\ log'[1].now = time
                            /\ log'[1].etime = time

\* advance finds no valid event: false, with the time of the clock as it
\* was, every preprocess run, every invalid event gone and no callback
\* invoked.
AdvanceFindsNone ==
    /\ (pc = "apre" /\ pc' # "acallback") => time' = time
    /\ (pc = "apre" /\ result' = "false") =>
           /\ ValidAtCall = {}
           /\ \A k \in 1..Len(preprocesses) : k < pidx
           /\ preprocesses' = <<>>
           /\ events' = <<>>
           /\ \A o \in start : ev'[o.id] = NoEvent
           /\ log' = <<>>
    /\ (pc = "apre" /\ pc' = "idle") => (result' = "false" /\ events = <<>>)

\* C24: advance runs the pending preprocesses, discards the invalid events
\* it pops, invokes the callback of exactly one event, a valid one of the
\* earliest time, at that time, and returns true; with no valid event in the
\* heap it returns false and leaves the time of the clock as it was.
C24_AdvanceRunsOneEvent ==
    [][AdvancePicks /\ AdvanceRuns /\ AdvanceFindsNone]_vars

\* advance returned true at a later time after running a preprocess and
\* popping an invalid event, and a later valid event is still pending.
C24_Witness ==
    /\ pc = "idle"
    /\ result = "true"
    /\ time > 0
    /\ prelog.kind # "none"
    /\ \E s \in start : ~s.valid /\ s.time < time
    /\ \E s \in start : s.valid /\ s.time > time /\ s.id \in Range(events)


\* schedule(event) at top level for an event of time t: an event before the
\* time of the clock leaves the heap and the events as they were; any other
\* is one more event of the heap, with its time.
ScheduleKeeps(t, k) ==
    Schedule(t, k) =>
        \E e \in {nextEv} :
            IF t < time
            THEN events' = events /\ ev' = ev
            ELSE /\ Len(events') = Len(events) + 1
                 /\ Range(events') = Range(events) \cup {e}
                 /\ ev'[e].time = t
                 /\ ev'[e].valid

\* schedule(event) from the callback of the event itself, at its own time,
\* which is the time of the clock: the event is in the heap again.
RescheduleKeeps ==
    (pc = "callback" /\ ev[cur].kind = "self" /\ pc' = "loop") =>
        \E e \in {cur} :
            /\ ev[e].time = time
            /\ e \notin Range(events)
            /\ e \in Range(events')
            /\ ev'[e].time = time

\* C25: Clock.schedule leaves out every event whose time is before the time
\* of the clock, which is then never invoked, and pushes every event whose
\* time is the time of the clock or later.
C25_ScheduleDropsPast ==
    [][/\ \A t \in Times, k \in {"plain", "self"} : ScheduleKeeps(t, k)
       /\ RescheduleKeeps
       /\ pc' = "callback" => (cur' \in Range(events) /\ ev[cur'].kind # "none")
      ]_vars

\* After a runTo, an event at the time of the clock was pushed and one
\* before it was not.
C25_Witness ==
    /\ pc = "idle"
    /\ time > 0
    /\ nextEv = 3
    /\ ev[1].kind = "plain" /\ ev[1].time = time /\ 1 \in Range(events)
    /\ ev[2].kind = "none" /\ 2 \notin Range(events)


\* The builder as a path begun afresh with the given vertices leaves it.
FreshPath(g, vertices) == to(break(g), vertices)

\* C26 as stated: close() on a path of fewer than two vertices adds no edge
\* and no vertex and abandons the path, so that the to(...) that follows
\* adds the edges and vertices of a fresh path and no edge from the vertex
\* that was left.
C26_ShortCloseAbandonsPath ==
    [][/\ (glast'.op = "close" /\ TooShort(gb.n) /\ glast'.calls = glast.calls + 1) =>
              /\ gb'.edgeArray = gb.edgeArray
              /\ gb'.vertexArray = gb.vertexArray
       /\ (glast.op = "close" /\ TooShort(glast.before.n) /\ glast'.op = "to"
              /\ glast'.calls = glast.calls + 1) =>
              /\ gb'.edgeArray = FreshPath(gb, glast'.arg).edgeArray
              /\ gb'.vertexArray = FreshPath(gb, glast'.arg).vertexArray
      ]_vars

\* The edges and the Vertex records of the polygon v1..vn, in the order
\* polygon pushes them.
PolygonEdges(v) ==
    [k \in 1..Len(v) |-> Edge(v[k], v[(k % Len(v)) + 1])]
Corner(v, k) ==
    LET n == Len(v)
        before == v[((k + n - 2) % n) + 1]
        after == v[(k % n) + 1]
    IN  Vertex(v[k], VSub(v[k], before), VSub(after, v[k]))
PolygonVertices(v) ==
    [k \in 1..Len(v) |-> Corner(v, (k % Len(v)) + 1)]

\* C27: polygon(v1..vn), n >= 3, whatever path the builder was in, adds the
\* n edges (vi, v(i+1)), the last one back to v1, and n Vertex records, the
\* one at vi with t0 = vi - v(i-1) and t1 = v(i+1) - vi, and leaves the
\* builder with an empty path.
C27_PolygonAddsCycle ==
    (glast.op = "polygon" /\ Len(glast.arg) >= 3) =>
        /\ gb.edgeArray = glast.before.edgeArray \o PolygonEdges(glast.arg)
        /\ gb.vertexArray = glast.before.vertexArray \o PolygonVertices(glast.arg)
        /\ gb.n = 0

\* polygon on four vertices, called while a path of two vertices was open.
C27_Witness ==
    /\ glast.op = "polygon"
    /\ Len(glast.arg) = 4
    /\ glast.before.n = 2
    /\ Len(gb.edgeArray) = 5
    /\ Len(gb.vertexArray) = 4


\* The valid contact events of the pair p that are pending.
PendingContacts(p) ==
    {k \in 1..Len(events) :
        /\ ev[events[k]].kind = "collision"
        /\ ev[events[k]].valid
        /\ {ev[events[k]].a, ev[events[k]].b} = p}

\* C28 as stated: a candidate is solved only if the other object of its pair
\* has not recalculated since the candidate was minted, also when it did so
\* at the same clock time, so that no contact of a pair is emitted twice: the
\* clock never holds more valid contact events of one pair than one exact
\* solve of the pair gives.
C28_NoContactTwice ==
    \A p \in AllPairs : Cardinality(PendingContacts(p)) <= MaxHits


\* C29 as stated: in the first loop of addCollisions the cutoff never grows:
\* after a candidate is solved it is the least of what it was and the times
\* of the events the candidate gave.
C29_CutoffIsLeast ==
    \A o \in DOMAIN obj : ~obj[o].cutoffAboveMin


\* The valid self-wake events of object o that are pending.
PendingWakes(o) ==
    {k \in 1..Len(events) :
        /\ ev[events[k]].kind = "wake"
        /\ ev[events[k]].valid
        /\ ev[events[k]].a = o}

\* The callback of a self-wake of object o is about to run.
Waking(o) == pc = "callback" /\ ev[cur].kind = "wake" /\ ev[cur].a = o

\* An object that is not disabled and holds a recalculating candidate has
\* one valid self-wake pending, at the earliestTime of the first candidate,
\* and has it among its relevantEvents.
WakeIsPending ==
    \A o \in DOMAIN obj :
        LET heap == obj[o].recalculatingCollisionCandidates
        IN  (heap # <<>> /\ ~obj[o].disabled /\ ~Waking(o)) =>
                \E k \in 1..Len(events) :
                    /\ PendingWakes(o) = {k}
                    /\ ev[events[k]].time = HeapPeek(heap).earliestTime
                    /\ events[k] \in obj[o].relevantEvents

\* The self-wake of object o runs addCollisions and no recalculation: the
\* first candidate is popped, or, the cutoff the call started with being
\* before it, left for one more self-wake that starts with no cutoff.
WakeSolves ==
    \A o \in DOMAIN obj :
        (Waking(o) /\ pc' = "loop"
            /\ obj[o].recalculatingCollisionCandidates # <<>>) =>
            LET heap == obj[o].recalculatingCollisionCandidates
                k == HeapPeek(heap)
                cutoff == obj[o].nextProbableRecalculation
            IN  /\ obj'[o].lastRecalculation = obj[o].lastRecalculation
                /\ ev[cur].time = k.earliestTime
                /\ IF cutoff < k.earliestTime
                   THEN /\ obj'[o].recalculatingCollisionCandidates = heap
                        /\ obj'[o].nextProbableRecalculation = Infinity
                   ELSE Len(obj'[o].recalculatingCollisionCandidates) < Len(heap)

\* C30: when the first loop of addCollisions stops at a candidate k, k stays
\* in the heap and one self-wake at k.earliestTime is scheduled and recorded
\* in relevantEvents; when the clock reaches it, and the object was neither
\* recalculated nor disabled, addCollisions runs again, with no
\* recalculation, and pops k, at the latest on the second self-wake.
C30_WakeResumes ==
    [][WakeIsPending' /\ WakeSolves]_vars

\* A self-wake of an object with two partners popped the candidate it was
\* scheduled for, and the contact of the pair is pending; neither object
\* of the pair has recalculated since the candidate was minted.
C30_Witness ==
    /\ pc = "loop"
    /\ Len(log) > 0
    /\ log[Len(log)].kind = "wake"
    /\ \E o \in DOMAIN obj :
           /\ Cardinality(Around(o)) > 1
           /\ obj[o].recalculatingCollisionCandidates = <<>>
           /\ PendingWakes(o) = {}
           /\ obj[o].lastRecalculation < time
           /\ \E k \in 1..Len(events) :
                  /\ ev[events[k]].kind = "collision"
                  /\ ev[events[k]].valid
                  /\ o \in {ev[events[k]].a, ev[events[k]].b}
                  /\ events[k] \in obj[o].relevantEvents
                  /\ ev[events[k]].time >= time
                  /\ \A q \in {ev[events[k]].a, ev[events[k]].b} :
                         obj[q].lastRecalculation <= obj[o].lastRecalculation

\* C31: in the second loop of addCollisions only candidates whose
\* earliestTime is at most the cutoff are taken out of
\* otherCollisionCandidates; the first candidate above the cutoff stays in
\* the heap for the call a self-wake makes.
C31_OtherStaysAboveCutoff ==
    \A o \in DOMAIN obj : ~obj[o].removedAboveCutoff

\* The recalculation preprocesses of object o in Clock.preprocesses, and
\* those of them that the for-of loop has not invoked yet.
RecalcEntries(o) ==
    {k \in 1..Len(preprocesses) :
        preprocesses[k].kind = "recalc" /\ preprocesses[k].arg = o}
PendingRecalc(o) ==
    {k \in RecalcEntries(o) : pc \notin {"pre", "apre"} \/ k >= pidx}

\* The counting half of C32: never two recalculation preprocesses of one
\* object in the list of one cycle.
AtMostOneQueued ==
    \A o \in DOMAIN obj : Cardinality(RecalcEntries(o)) <= 1

\* C32: the queueCollisionRecalculation calls made on an object while
\* clock.cycle is unchanged add exactly one preprocess, and
\* recalculateCollisions then runs once for them: an object queued since
\* its last recalculation has exactly one preprocess that is still to run.
C32_OneRecalculationPerCycle ==
    \A o \in DOMAIN obj :
        /\ Cardinality(RecalcEntries(o)) <= 1
        /\ o \in dirty => Cardinality(PendingRecalc(o)) = 1

\* The step is the recalculation preprocess of object o, which is disabled.
RecalculatesDisabled(o) ==
    /\ pc \in {"pre", "apre"}
    /\ ForOfHasNext(preprocesses, pidx)
    /\ preprocesses[pidx].kind = "recalc"
    /\ preprocesses[pidx].arg = o
    /\ obj[o].disabled
    /\ pidx' = pidx + 1

\* What recalculateCollisions of a disabled object leaves alone: every field
\* but lastRecalculation, the events and the heap of the clock.
DisabledRecalculationKeepsRest ==
    [][\A o \in DOMAIN obj :
          RecalculatesDisabled(o) =>
              /\ obj' = [obj EXCEPT ![o].lastRecalculation = obj'[o].lastRecalculation]
              /\ ev' = ev
              /\ events' = events]_vars

\* C33: recalculateCollisions of a disabled object changes no field of the
\* object (relevantEvents, the two candidate heaps,
\* nextProbableRecalculation, lastRecalculation) and schedules or
\* invalidates no event.
C33_DisabledRecalculationChangesNothing ==
    [][\A o \in DOMAIN obj :
          RecalculatesDisabled(o) =>
              /\ obj'[o] = obj[o]
              /\ ev' = ev
              /\ events' = events]_vars

\* The last vertexEdge call: the constants of its vertex and edge, the
\* times it tried, and, for a time it tried, ep x relVel at that time,
\* whether the tests before the one on relVel pass, and whether a collision
\* was returned for it.
SolveSetup == Setup(vlast.eTr, vlast.vTr, vlast.edge, vlast.vertex)
Tried ==
    CandidateTimes(SolveSetup, vlast.now - vlast.vTr.time, vlast.toleranceProfile)
CrossAt(t) ==
    LET x == AtTime(SolveSetup, t)
    IN  cross(x.ep, relVelAt(vlast.eTr, vlast.edge, SolveSetup, x.ep, x.vp))
PassesShape(t) ==
    LET x == AtTime(SolveSetup, t)
    IN  /\ ~OffEdge(x.ep, x.vp)
        /\ convex(x.v0p, x.v1p)
        /\ correctDirection(x.v0p, x.v1p, x.ep, vlast.toleranceProfile)
        /\ correctWinding(x.v0p, x.v1p, x.ep)
Emitted(cand) ==
    \E m \in 1..Len(vlast.collisions) :
        /\ vlast.collisions[m].time = vlast.vTr.time + cand.t
        /\ vlast.collisions[m].from = cand.from

\* C34 as stated: a contact is accepted only if ep x relVel <= 0 at its
\* time, and a candidate time with ep x relVel > 0 is rejected.
C34_AcceptsOnlyNonPositive ==
    vlast.op = "vertexEdge" =>
        \A n \in 1..Len(Tried) :
            /\ Emitted(Tried[n]) => CrossAt(Tried[n].t) <= 0
            /\ CrossAt(Tried[n].t) > 0 => ~Emitted(Tried[n])

\* C34, amended: a contact is accepted only if ep x relVel > 0 at its time;
\* a candidate time with ep x relVel <= 0 is rejected, and one with
\* ep x relVel > 0 that passes the tests on the edge parameter, the
\* convexity, the direction and the winding is accepted.
C34_AcceptsOnlyPositive ==
    vlast.op = "vertexEdge" =>
        \A n \in 1..Len(Tried) :
            /\ Emitted(Tried[n]) => CrossAt(Tried[n].t) > 0
            /\ CrossAt(Tried[n].t) <= 0 => ~Emitted(Tried[n])
            /\ CrossAt(Tried[n].t) > 0 /\ PassesShape(Tried[n].t) => Emitted(Tried[n])

\* A call that tried two times, both passing the other tests: one with
\* ep x relVel > 0, accepted, and one with ep x relVel <= 0, rejected.
C34_Witness ==
    /\ vlast.op = "vertexEdge"
    /\ \E n, m \in 1..Len(Tried) :
           /\ PassesShape(Tried[n].t) /\ CrossAt(Tried[n].t) > 0
           /\ Emitted(Tried[n])
           /\ PassesShape(Tried[m].t) /\ CrossAt(Tried[m].t) <= 0
           /\ ~Emitted(Tried[m])

\* The last vertexEdge call, at the time of the clock: the vertex lies on
\* the edge, the relative velocity there, and whether a collision with the
\* time of the clock was returned, by the close-collision shortcut or at all.
NowRel == vlast.now - vlast.vTr.time
TouchesNow ==
    LET x == AtTime(SolveSetup, NowRel)
    IN  cross(x.ep, x.vp) = 0 /\ ~OffEdge(x.ep, x.vp)
TouchRelVel ==
    LET x == AtTime(SolveSetup, NowRel)
    IN  relVelAt(vlast.eTr, vlast.edge, SolveSetup, x.ep, x.vp)
CollidesNow ==
    \E m \in 1..Len(vlast.collisions) : vlast.collisions[m].time = vlast.now
CollidesNowClose == Emitted([t |-> NowRel, from |-> "close"])

\* C35 as stated: a vertex that lies on an edge at clock.time with zero
\* relative velocity, the convexity, direction and winding tests passing,
\* gives a collision at clock.time through the close-collision shortcut.
C35_StaticTangencyCollides ==
    vlast.op = "vertexEdge" /\ TouchesNow /\ TouchRelVel = <<0, 0>>
                            /\ PassesShape(NowRel)
        => CollidesNowClose

\* C35, amended: for a vertex that lies on an edge at clock.time, the
\* convexity, direction and winding tests passing, the close-collision
\* shortcut gives a collision at clock.time exactly when ep x relVel > 0
\* there; with zero relative velocity no collision at clock.time is returned.
C35_TangencyCollidesIfApproaching ==
    vlast.op = "vertexEdge" /\ TouchesNow /\ PassesShape(NowRel) =>
        /\ CollidesNowClose <=> CrossAt(NowRel) > 0
        /\ TouchRelVel = <<0, 0>> => ~CollidesNow

\* A vertex at rest on an edge at rest, every test on the shape passing: the
\* shortcut tried the time of the clock and nothing was returned.
C35_Witness ==
    /\ vlast.op = "vertexEdge"
    /\ TouchesNow
    /\ TouchRelVel = <<0, 0>>
    /\ PassesShape(NowRel)
    /\ \E n \in 1..Len(Tried) : Tried[n] = [t |-> NowRel, from |-> "close"]
    /\ vlast.collisions = <<>>


\* ------------------------------------------------------------------ C36
\* The times after now, as far as any bound of the boxes given lies.
BoxHorizon == 20
BoxConstraints ==
    Constraints(generateBox(clast.a, clast.now), generateBox(clast.b, clast.now))
\* The inequality 0 <= m t + b of one side holds at t.
SideHolds(c, t) ==
    LET v == NumAdd(NumMul(c.m, t), c.b) IN v # NaN /\ v >= 0
BoxesOverlapAt == {t \in 0..BoxHorizon : \A n \in 1..4 : SideHolds(BoxConstraints[n], t)}
LeastOverlap == CHOOSE t \in BoxesOverlapAt : \A u \in BoxesOverlapAt : t <= u
EmptyGeometry(o) == o.geometry.minX = Infinity
SweptBoxAnswer ==
    IF clast.same \/ BoxesOverlapAt = {}
    THEN clast.result = <<>>
    ELSE /\ clast.result # <<>>
         /\ clast.result[1].earliestTime = clast.now + LeastOverlap

\* C36: generateCollisionCandidates returns null for one object given twice
\* and when no t >= 0 satisfies the four inequalities of the swept bounding
\* boxes, and otherwise a candidate whose earliestTime is now plus the least
\* such t, so that no candidate is earlier than now.
C36_EarliestOverlapOrNull ==
    clast.op = "generate" =>
        /\ SweptBoxAnswer
        /\ clast.result # <<>> => clast.result[1].earliestTime >= clast.now

\* With geometries that have a point the answer is the one stated.
C36_HoldsWithPoints ==
    clast.op = "generate" /\ ~EmptyGeometry(clast.a) /\ ~EmptyGeometry(clast.b)
        => SweptBoxAnswer

\* A candidate later than now was returned.
C36_LaterCandidate ==
    /\ clast.op = "generate"
    /\ clast.result # <<>>
    /\ clast.result[1].earliestTime > clast.now


\* ------------------------------------------------------------------ C37
\* How many times x is among the values.
Copies(x, values) == Cardinality({k \in 1..Len(values) : values[k] = x})
LeastKeyAmong(x, values) ==
    /\ Copies(x, values) > 0
    /\ \A k \in 1..Len(values) : itemKey[x] <= itemKey[values[k]]
PopTookLeast ==
    hp.op = "pop" /\ hp.before # <<>> =>
        /\ LeastKeyAmong(hp.returned, hp.before)
        /\ \A x \in 1..HeapItems :
               Copies(x, hp.values)
                   = Copies(x, hp.before) - (IF x = hp.returned THEN 1 ELSE 0)
PopOfEmpty ==
    hp.op = "pop" /\ hp.before = <<>> => hp.returned = 0 /\ hp.values = <<>>
PeekShowsNextPop ==
    hp.op = "peek" =>
        /\ hp.values = hp.before
        /\ hp.returned = popReturn(hp.values)
        /\ hp.values # <<>> => LeastKeyAmong(hp.returned, hp.values)
SizeCounts == Len(hp.values) = hp.pushed - hp.popped

\* C37: after any pushes and pops, pop returns and removes an element whose
\* key is least among those stored, peek returns the element pop would and
\* removes nothing, pop on an empty heap returns undefined, and size is the
\* number of pushes minus the number of elements pop returned.
C37_HeapOrder ==
    /\ PopTookLeast
    /\ PopOfEmpty
    /\ PeekShowsNextPop
    /\ SizeCounts

\* A pop took one of two elements with the least key from four stored, out
\* of the order they were pushed in.
C37_Witness ==
    /\ hp.op = "pop"
    /\ Len(hp.before) = 4
    /\ hp.returned # hp.before[Len(hp.before)]
    /\ \E k \in 1..Len(hp.values) : itemKey[hp.values[k]] = itemKey[hp.returned]
    /\ hp.popped >= 2


\* ------------------------------------------------------------------ C38
\* C38: cancelLoop(id) stops the loop whose scheduleLoop call returned id
\* and no other: a loop whose own id was not given to cancelLoop goes on
\* firing, its callback invoked at each of its events, whatever other loops
\* were cancelled.
C38_CancelStopsOnlyThatLoop ==
    [][(pc = "callback" /\ ev[cur].kind = "loop" /\ ev[cur].arg \notin cancelled) =>
           /\ Len(log') = Len(log) + 1
           /\ log'[Len(log')].kind = "loop"
           /\ log'[Len(log')].arg = ev[cur].arg
      ]_vars


PassStaysOpen ==
    [][(pc = "pre" /\ ForOfHasNext(preprocesses, pidx)
           /\ preprocesses[pidx].kind = "again" /\ pc' = "pre") =>
           /\ ForOfHasNext(preprocesses', pidx')
           /\ preprocesses'[Len(preprocesses')].kind = "again"
           /\ cycle' = cycle /\ i' = i
      ]_vars


\* ------------------------------------------------------------------ C40
\* The valid events of the heap of the clock that are of the kind k.
ValidInHeap(k) == {e \in Range(events) : ev[e].valid /\ ev[e].kind = k}

\* Every valid collision event in the heap of the clock is in the
\* relevantEvents of both of its objects and every valid self-wake in the
\* relevantEvents of its owner: clearCollisions of either object reaches it.
ValidEventsAreRecorded ==
    /\ \A e \in ValidInHeap("collision") :
           /\ e \in obj[ev[e].a].relevantEvents
           /\ e \in obj[ev[e].b].relevantEvents
    /\ \A e \in ValidInHeap("wake") : e \in obj[ev[e].a].relevantEvents

\* A step that recalculates X or disables it.
ClearsEventsOf(X) ==
    \/ RecalculationOf(X)
    \/ pc = "idle" /\ ~obj[X].disabled /\ obj'[X].disabled
InvalidatedWith(X) ==
    ClearsEventsOf(X) => \A e \in EventsOf(X) : ~ev'[e].valid

\* Recalculating an enabled object or disabling it invalidates its events.
EnabledInvalidates ==
    [][\A X \in Objs : ~obj[X].disabled => InvalidatedWith(X)]_vars

====
